---- MODULE Spec2Model ----
(***************************************************************************)
(* Model of caidaoli/apiProxy: the Redis-backed mapping registry           *)
(* (internal/storage/redis.go) shared by several proxy instances, and the  *)
(* longest-prefix router of main.go, and the transparent forwarder         *)
(* (internal/proxy, ProxyRequest) the router hands matched requests to.    *)
(*                                                                         *)
(* Strings that the code inspects character by character (prefixes and     *)
(* request paths, header names) are sequences of one-character strings.    *)
(***************************************************************************)
EXTENDS Integers, Sequences, FiniteSets, TLC

VARIABLES
    kvHash,     \* Redis hash apiproxy:mappings, a map prefix -> target
    kvVersion,  \* Redis key apiproxy:mappings:version, 0 when the key is absent
    chan,       \* per instance: messages waiting in its Pub/Sub subscription
    cache,      \* per instance: MappingManager.cache
    version,    \* per instance: MappingManager.version
    mu,         \* per instance: MappingManager.mu (RWMutex)
    adm,        \* per instance: the admin request running AddMapping/UpdateMapping/DeleteMapping/ForceReload
    rel,        \* per instance and worker: backgroundReloader / pubsubListener running reloadMappings
    rd,         \* per instance: a reader running GetMapping / GetAllMappings
    kvUp,       \* whether Redis answers commands (FALSE: every command fails)
    calls,      \* number of calls (admin calls, reloads, readers) started so far
    before,     \* sequential runs: the registry state when the running call began
    prev,       \* sequential runs: the admin call that returned last
    path,       \* router: the request path of the NoRoute handler
    prefixes,   \* router: the slice GetPrefixes returned to the handler
    route,      \* router: position and result of the NoRoute handler
    req,        \* forwarder: the incoming request (headers, context deadline)
    fwd,        \* forwarder: position and locals of ProxyRequest
    up,         \* forwarder: the upstream (requests it received, the response it produces)
    sink,       \* forwarder: the ResponseWriter and the client connection behind it
    obs         \* the statsCollector: whether the forwarder has it (on), whether the
                \* stats middleware is installed (mw), and what each told it
VARIABLES
    col,        \* the channel-based statistics Collector, its batch worker and its callers
    life        \* instance 1 of the registry: construction, workers, Close

vars == <<kvHash, kvVersion, chan, cache, version, mu, adm, rel, rd, kvUp,
          calls, before, prev, path, prefixes, route, req, fwd, up, sink, obs, col, life>>

regVars == <<kvHash, kvVersion, chan, cache, version, mu, adm, rel, rd, kvUp>>

histVars == <<calls, before, prev>>

routeVars == <<path, prefixes, route>>

fwdVars == <<req, fwd, up, sink, obs>>

----
\* Bounds of the model

\* messages one subscription buffers
MaxChan == 1
\* calls (admin calls, reloads, readers) in progress at the same time
MaxActive == 2
\* calls started in one behaviour of Spec, of SpecSeq, of SpecOne
MaxCalls == 3
MaxSeqCalls == 2
MaxOneCalls == 3
\* events the collector's channel buffers, events of one batch, and
\* RecordRequest/RecordError calls of one behaviour of SpecStats
QueueCap == 2
BatchCap == 2
MaxStatCalls == 4
\* calls (reloads, peer mutations) started in one behaviour of SpecLife
MaxLifeCalls == 2
\* calls (mutations, lookups, reloads) started in one behaviour of SpecMix
MaxMixCalls == 4

\* two proxy instances share one Redis
Inst == {1, 2}

\* prefixes and targets the admin surface submits (all pass validateMapping)
Prefixes == {<<"/", "a">>, <<"/", "a", "/", "b">>}
Targets == {"t1", "t2"}

Workers == {"poller", "listener"}

----
\* Go maps: a function whose DOMAIN is the set of keys

EmptyMap == <<>>

Put(m, k, v) == [x \in (DOMAIN m) \cup {k} |-> IF x = k THEN v ELSE m[x]]

Del(m, k) == [x \in (DOMAIN m) \ {k} |-> m[x]]

Min(a, b) == IF a < b THEN a ELSE b

----
\* sync.RWMutex
Unlocked == [w |-> FALSE, r |-> 0]

\* a write lock that does not wait for the readers to leave
CanLock_IgnoringReaders(i) == ~mu[i].w

CanLock(i) == ~mu[i].w /\ mu[i].r = 0

CanRLock(i) == ~mu[i].w

IdleAdm == [pc |-> "idle", op |-> "none", p |-> <<>>, t |-> "none", nv |-> 0,
            res |-> "none", base |-> 0, had |-> FALSE,
            tok |-> <<>>, hdr |-> <<>>, code |-> 0]
IdleRel == [pc |-> "idle", rv |-> 0, m |-> EmptyMap, res |-> "none", fresh |-> FALSE]
IdleRd == [pc |-> "idle", op |-> "none", p |-> <<>>, val |-> "none", res |-> "none",
           acc |-> EmptyMap, todo |-> {}, from |-> EmptyMap]

\* no admin call and no reader is in progress on any instance
Quiet == \A j \in Inst : adm[j].pc = "idle" /\ rd[j].pc = "idle"

\* a hash provisioned before the instances started
SeedMap == Put(EmptyMap, <<"/", "a">>, "t1")

NoCall == [inst |-> 0, op |-> "none", p |-> <<>>, t |-> "none", res |-> "none"]

\* The instances have been constructed (NewMappingManager has run its first
\* reloadMappings) over a Redis that was empty, or over one that held SeedMap:
\* the first reload of a hash without a version key sets the version to 1.
Constructed(h, v) ==
    /\ kvHash = h
    /\ kvVersion = v
    /\ cache = [i \in Inst |-> h]
    /\ version = [i \in Inst |-> v]
    /\ chan = [i \in Inst |-> 0]
    /\ mu = [i \in Inst |-> Unlocked]
    /\ adm = [i \in Inst |-> IdleAdm]
    /\ rel = [i \in Inst |-> [k \in Workers |-> IdleRel]]
    /\ rd = [i \in Inst |-> IdleRd]
    /\ kvUp = TRUE

RegInit == Constructed(EmptyMap, 0) \/ Constructed(SeedMap, 1)

\* what a sequential run remembers of the state at the start of a call
Snapshot == [kvHash |-> kvHash, kvVersion |-> kvVersion, chan |-> chan,
             cache |-> cache, version |-> version]

HistInit ==
    /\ calls = 0
    /\ before = Snapshot
    /\ prev = NoCall

IdleRoute == [pc |-> "idle", prefix |-> <<>>, ok |-> FALSE, rest |-> <<>>, todo |-> {}]

RouteIdle ==
    /\ path = <<>>
    /\ prefixes = <<>>
    /\ route = IdleRoute

----
\* Admin mutations: AddMapping, UpdateMapping, DeleteMapping
\*
\* adm[i].base is the largest version visible (locally or in Redis) when the
\* call began, adm[i].had whether Redis held the prefix then.  rel[..].fresh
\* marks a reload that began while no admin call or reader was in progress
\* and during which no mutation has begun since.

Max(a, b) == IF a > b THEN a ELSE b

HasPrefix(s, p) == Len(p) <= Len(s) /\ SubSeq(s, 1, Len(p)) = p

HasSuffix(s, x) == Len(x) <= Len(s) /\ SubSeq(s, Len(s) - Len(x) + 1, Len(s)) = x

\* strings.ToLower, letter by letter
ToLower(name) ==
    LET upper == <<"A", "B", "C", "D", "E", "F", "G", "H", "I", "J", "K", "L", "M", "N", "O", "P", "Q", "R", "S", "T", "U", "V", "W", "X", "Y", "Z">>
        lower == <<"a", "b", "c", "d", "e", "f", "g", "h", "i", "j", "k", "l", "m", "n", "o", "p", "q", "r", "s", "t", "u", "v", "w", "x", "y", "z">>
        char(c) == IF \E i \in DOMAIN upper : upper[i] = c
                   THEN lower[CHOOSE i \in DOMAIN upper : upper[i] = c]
                   ELSE c
    IN [i \in 1..Len(name) |-> char(name[i])]

\* url.Parse refuses a "%" that two hex digits do not follow
BadEscape(u) ==
    LET hex == {"a", "b", "c"}
    IN \E i \in DOMAIN u :
        /\ u[i] = "%"
        /\ ~(i + 2 <= Len(u) /\ u[i + 1] \in hex /\ u[i + 2] \in hex)

\* the URL a target names, as the admin request carries it
TargetURL == [
    t1 |-> <<"h", "t", "t", "p", ":", "/", "/", "u">>,
    t2 |-> <<"h", "t", "t", "p", "s", ":", "/", "/", "u", "/", "x">>,
    upper |-> <<"H", "T", "T", "P", ":", "/", "/", "u">>,
    empty |-> <<>>,
    ftp |-> <<"f", "t", "p", ":", "/", "/", "u">>,
    nohost |-> <<"h", "t", "t", "p", ":", "/", "/", "/", "x">>,
    plain |-> <<"u", "/", "x">>,
    escape |-> <<"h", "t", "t", "p", ":", "/", "/", "u", "/", "%", "x">>,
    colon |-> <<":", "/", "/", "u">>]

\* url.Parse, as far as validateMapping looks at its result: the scheme is the
\* letters before the first ":" (lowered), the host what follows "//" up to
\* the next "/"; a leading ":", a ":" in the first segment of a URL without
\* scheme and a bad escape are errors
Parse(u) ==
    LET letter(c) == ToLower(<<c>>) \in {<<"f">>, <<"h">>, <<"p">>, <<"s">>, <<"t">>, <<"u">>, <<"x">>}
        colons == {i \in DOMAIN u : u[i] = ":"}
        first == IF colons = {} THEN 0 ELSE CHOOSE i \in colons : \A j \in colons : i <= j
        hasScheme == first > 1 /\ \A j \in 1..(first - 1) : letter(u[j])
        rest == IF hasScheme THEN SubSeq(u, first + 1, Len(u)) ELSE u
        authority == Len(rest) >= 2 /\ rest[1] = "/" /\ rest[2] = "/"
                     /\ (hasScheme \/ ~(Len(rest) >= 3 /\ rest[3] = "/"))
        after == SubSeq(rest, 3, Len(rest))
        slashes == {i \in DOMAIN after : after[i] = "/"}
        end == IF slashes = {} THEN Len(after) + 1
               ELSE CHOOSE i \in slashes : \A j \in slashes : i <= j
    IN [err |-> \/ first = 1
                \/ (~hasScheme /\ first > 1 /\ \A j \in 1..(first - 1) : u[j] # "/")
                \/ BadEscape(rest),
        Scheme |-> IF hasScheme THEN ToLower(SubSeq(u, 1, first - 1)) ELSE <<>>,
        Host |-> IF authority THEN SubSeq(after, 1, end - 1) ELSE <<>>]

\* a validation that takes any scheme
validateMapping_AnyScheme(prefix, target) ==
    LET parsedURL == Parse(TargetURL[target])
    IN IF prefix = <<>> THEN "invalid"
       ELSE IF ~HasPrefix(prefix, <<"/">>) THEN "invalid"
       ELSE IF \E i \in DOMAIN prefix : prefix[i] = " " THEN "invalid"
       ELSE IF TargetURL[target] = <<>> THEN "invalid"
       ELSE IF parsedURL.err THEN "invalid"
       ELSE IF parsedURL.Host = <<>> THEN "invalid"
       ELSE "none"

\* validateMapping: the error it returns, "none" for nil
validateMapping(prefix, target) ==
    LET parsedURL == Parse(TargetURL[target])
        http == <<"h", "t", "t", "p">>
    IN IF prefix = <<>> THEN "invalid"
       ELSE IF ~HasPrefix(prefix, <<"/">>) THEN "invalid"
       ELSE IF \E i \in DOMAIN prefix : prefix[i] = " " THEN "invalid"
       ELSE IF TargetURL[target] = <<>> THEN "invalid"
       ELSE IF parsedURL.err THEN "invalid"
       ELSE IF parsedURL.Scheme # http /\ parsedURL.Scheme # http \o <<"s">> THEN "invalid"
       ELSE IF parsedURL.Host = <<>> THEN "invalid"
       ELSE "none"

\* handleAddMapping, handleUpdateMapping, handleDeleteMapping: the status
\* answered for the result of the registry call
handleStatus(op, res) ==
    IF op = "add" THEN (IF res = "ok" THEN 201 ELSE 400)
    ELSE IF op = "update" THEN (IF res = "ok" THEN 200 ELSE 400)
    ELSE IF res = "ok" THEN 200 ELSE 404

Unfresh(r) == [i \in Inst |-> [k \in Workers |-> [r[i][k] EXCEPT !.fresh = FALSE]]]

Finish(i, result) == adm' = [adm EXCEPT ![i].pc = "done", ![i].res = result]

Begin(i, op, p, t) ==
    /\ adm[i].pc \in {"idle", "next"}
    /\ LET call == [adm[i] EXCEPT !.op = op, !.p = p, !.t = t,
                                   !.base = Max(kvVersion, version[i]),
                                   !.had = p \in DOMAIN kvHash]
       IN IF op \in {"add", "update"} /\ validateMapping(p, t) # "none"
          THEN adm' = [adm EXCEPT ![i] = [call EXCEPT !.pc = "done", !.res = "invalid"]]
          ELSE adm' = [adm EXCEPT ![i] = [call EXCEPT !.pc = "hexists"]]
    /\ rel' = Unfresh(rel)
    /\ UNCHANGED <<kvHash, kvVersion, chan, cache, version, mu, rd, kvUp>>

AddMapping(i, p, t) == Begin(i, "add", p, t)

UpdateMapping(i, p, t) == Begin(i, "update", p, t)

DeleteMapping(i, p) == Begin(i, "delete", p, "none")

\* a middleware that lets every request through while ADMIN_TOKEN is unset
AdminAuthMiddleware_OpenWhenUnset(i, tok, hdr, op, p, t) ==
    /\ adm[i].pc = "idle"
    /\ LET call == [IdleAdm EXCEPT !.op = op, !.p = p, !.t = t, !.tok = tok, !.hdr = hdr]
       IN IF tok = <<>> \/ hdr = tok
          THEN adm' = [adm EXCEPT ![i] = [call EXCEPT !.pc = "next"]]
          ELSE adm' = [adm EXCEPT ![i] = [call EXCEPT !.pc = "done", !.res = "aborted", !.code = 401]]
    /\ UNCHANGED <<kvHash, kvVersion, chan, cache, version, mu, rel, rd, kvUp>>

\* AdminAuthMiddleware in front of the handlers of /api/mappings: tok is
\* os.Getenv("ADMIN_TOKEN"), hdr the Authorization header of the request;
\* strings.TrimPrefix(hdr, "Bearer "), strings.TrimSpace, then the comparison;
\* c.Abort() ends the request, c.Next() runs the handler
AdminAuthMiddleware(i, tok, hdr, op, p, t) ==
    /\ adm[i].pc = "idle"
    /\ LET call == [IdleAdm EXCEPT !.op = op, !.p = p, !.t = t, !.tok = tok, !.hdr = hdr]
           bearer == <<"B", "e", "a", "r", "e", "r", " ">>
           cut == IF HasPrefix(hdr, bearer) THEN SubSeq(hdr, Len(bearer) + 1, Len(hdr)) ELSE hdr
           nonsp == {k \in DOMAIN cut : cut[k] # " "}
           token == IF nonsp = {} THEN <<>>
                    ELSE SubSeq(cut, CHOOSE k \in nonsp : \A j \in nonsp : k <= j,
                                     CHOOSE k \in nonsp : \A j \in nonsp : k >= j)
           status == IF tok = <<>> THEN 503
                     ELSE IF hdr = <<>> THEN 401
                     ELSE IF token # tok THEN 401
                     ELSE 0
       IN IF status = 0
          THEN adm' = [adm EXCEPT ![i] = [call EXCEPT !.pc = "next"]]
          ELSE adm' = [adm EXCEPT ![i] = [call EXCEPT !.pc = "done", !.res = "aborted",
                                                      !.code = status]]
    /\ UNCHANGED <<kvHash, kvVersion, chan, cache, version, mu, rel, rd, kvUp>>

\* an existence check that lets Update and Delete through for any prefix
Rejection_AddOnly(op, exists) ==
    IF op = "add" /\ exists THEN "exists" ELSE "none"

\* the existence check: Add rejects a prefix Redis holds, Update and Delete
\* one it does not hold
Rejection(op, exists) ==
    IF op = "add" /\ exists THEN "exists"
    ELSE IF op # "add" /\ ~exists THEN "notfound"
    ELSE "none"

\* HExists and the existence check of the three mutations
Mutate_HExists(i) ==
    /\ adm[i].pc = "hexists"
    /\ LET rejected == Rejection(adm[i].op, adm[i].p \in DOMAIN kvHash)
       IN IF ~kvUp THEN Finish(i, "error")
          ELSE IF rejected # "none" THEN Finish(i, rejected)
          ELSE adm' = [adm EXCEPT ![i].pc = "hwrite"]
    /\ UNCHANGED <<kvHash, kvVersion, chan, cache, version, mu, rel, rd, kvUp>>

\* a hash write that updates the local cache first, whatever Redis answers
Mutate_HWrite_CacheFirst(i) ==
    /\ adm[i].pc = "hwrite"
    /\ cache' = [cache EXCEPT ![i] = IF adm[i].op = "delete" THEN Del(@, adm[i].p)
                                     ELSE Put(@, adm[i].p, adm[i].t)]
    /\ IF kvUp
       THEN /\ kvHash' = IF adm[i].op = "delete" THEN Del(kvHash, adm[i].p)
                         ELSE Put(kvHash, adm[i].p, adm[i].t)
            /\ adm' = [adm EXCEPT ![i].pc = "incr"]
       ELSE /\ kvHash' = kvHash
            /\ adm' = [adm EXCEPT ![i].pc = "done", ![i].res = "error"]
    /\ UNCHANGED <<kvVersion, chan, version, mu, rel, rd, kvUp>>

\* HSet (Add, Update) or HDel (Delete)
Mutate_HWrite(i) ==
    /\ adm[i].pc = "hwrite"
    /\ IF kvUp
       THEN /\ kvHash' = IF adm[i].op = "delete" THEN Del(kvHash, adm[i].p)
                         ELSE Put(kvHash, adm[i].p, adm[i].t)
            /\ adm' = [adm EXCEPT ![i].pc = "incr"]
       ELSE /\ kvHash' = kvHash
            /\ Finish(i, "error")
    /\ UNCHANGED <<kvVersion, chan, cache, version, mu, rel, rd, kvUp>>

\* Incr of the version key; a failure is logged and leaves newVersion = 0
Mutate_Incr(i) ==
    /\ adm[i].pc = "incr"
    /\ IF kvUp
       THEN /\ kvVersion' = kvVersion + 1
            /\ adm' = [adm EXCEPT ![i].pc = "cache", ![i].nv = kvVersion + 1]
       ELSE /\ kvVersion' = kvVersion
            /\ adm' = [adm EXCEPT ![i].pc = "cache", ![i].nv = 0]
    /\ UNCHANGED <<kvHash, chan, cache, version, mu, rel, rd, kvUp>>

\* a cache update whose Delete leaves the entry in place
CacheAfter_KeepingDeleted(i) ==
    IF adm[i].op = "delete" THEN cache[i]
    ELSE Put(cache[i], adm[i].p, adm[i].t)

\* the value the mutation leaves in the local cache
CacheAfter(i) ==
    IF adm[i].op = "delete" THEN Del(cache[i], adm[i].p)
    ELSE Put(cache[i], adm[i].p, adm[i].t)

\* m.mu.Lock(); m.cache[prefix] = target / delete(m.cache, prefix); m.mu.Unlock()
Mutate_Cache(i) ==
    /\ adm[i].pc = "cache"
    /\ CanLock(i)
    /\ cache' = [cache EXCEPT ![i] = CacheAfter(i)]
    /\ adm' = [adm EXCEPT ![i].pc = "version"]
    /\ UNCHANGED <<kvHash, kvVersion, chan, version, mu, rel, rd, kvUp>>

\* if newVersion > 0 { m.version.Store(newVersion) } else { m.version.Add(1) }
Mutate_Version(i) ==
    /\ adm[i].pc = "version"
    /\ version' = [version EXCEPT ![i] = IF adm[i].nv > 0 THEN adm[i].nv ELSE @ + 1]
    /\ adm' = [adm EXCEPT ![i].pc = "publish"]
    /\ UNCHANGED <<kvHash, kvVersion, chan, cache, mu, rel, rd, kvUp>>

\* Publish to every subscription (the instance's own included); a failure is
\* logged and the mutation still returns nil
Mutate_Publish(i) ==
    /\ adm[i].pc = "publish"
    /\ IF kvUp
       THEN /\ chan' = [j \in Inst |-> Min(chan[j] + 1, MaxChan)]
            /\ adm' = [adm EXCEPT ![i].pc = "done", ![i].res = "ok"]
       ELSE /\ chan' = chan
            /\ Finish(i, "ok")
    /\ UNCHANGED <<kvHash, kvVersion, cache, version, mu, rel, rd, kvUp>>

\* the admin call returns to its caller
Admin_Return(i) ==
    /\ adm[i].pc = "done"
    /\ adm' = [adm EXCEPT ![i] = IdleAdm]
    /\ UNCHANGED <<kvHash, kvVersion, chan, cache, version, mu, rel, rd, kvUp>>

----
\* reloadMappings, run by backgroundReloader (every ReloadPeriod) and by
\* pubsubListener (on every message)

EndReload(i, k, result) == rel' = [rel EXCEPT ![i][k].pc = "done", ![i][k].res = result]

\* case <-ticker.C of backgroundReloader
Tick(i) ==
    /\ rel[i]["poller"].pc = "idle"
    /\ rel' = [rel EXCEPT ![i]["poller"] = [IdleRel EXCEPT !.pc = "get", !.fresh = Quiet]]
    /\ UNCHANGED <<kvHash, kvVersion, chan, cache, version, mu, adm, rd, kvUp>>

\* case msg := <-ch of pubsubListener
Receive(i) ==
    /\ rel[i]["listener"].pc = "idle"
    /\ chan[i] > 0
    /\ chan' = [chan EXCEPT ![i] = @ - 1]
    /\ rel' = [rel EXCEPT ![i]["listener"] = [IdleRel EXCEPT !.pc = "get", !.fresh = Quiet]]
    /\ UNCHANGED <<kvHash, kvVersion, cache, version, mu, adm, rd, kvUp>>

\* Redis Pub/Sub is fire-and-forget: a message may never reach a subscription
LoseMessage(i) ==
    /\ chan[i] > 0
    /\ chan' = [chan EXCEPT ![i] = @ - 1]
    /\ UNCHANGED <<kvHash, kvVersion, cache, version, mu, adm, rel, rd, kvUp>>

\* remoteVersion, err := Get(KeyMappingsVersion).Int64(); redis.Nil gives 0
Reload_Get(i, k) ==
    /\ rel[i][k].pc = "get"
    /\ IF kvUp THEN rel' = [rel EXCEPT ![i][k].pc = "compare", ![i][k].rv = kvVersion]
       ELSE EndReload(i, k, "error")
    /\ UNCHANGED <<kvHash, kvVersion, chan, cache, version, mu, adm, rd, kvUp>>

\* a short-circuit that also takes a missing remote version for an equal one
SameVersion_AlsoAbsent(i, rv) == rv = version[i]

\* the short-circuit: remoteVersion > 0 && remoteVersion == m.version.Load()
SameVersion(i, rv) == rv > 0 /\ rv = version[i]

Reload_Compare(i, k) ==
    /\ rel[i][k].pc = "compare"
    /\ IF SameVersion(i, rel[i][k].rv) THEN EndReload(i, k, "skipped")
       ELSE rel' = [rel EXCEPT ![i][k].pc = "hgetall"]
    /\ UNCHANGED <<kvHash, kvVersion, chan, cache, version, mu, adm, rd, kvUp>>

\* a reload that takes an empty hash for a failure
Reload_HGetAll_EmptyFails(i, k) ==
    /\ rel[i][k].pc = "hgetall"
    /\ CanLock(i)
    /\ IF ~kvUp \/ DOMAIN kvHash = {}
       THEN /\ EndReload(i, k, "error")
            /\ mu' = mu
       ELSE /\ rel' = [rel EXCEPT ![i][k].pc = "swap", ![i][k].m = kvHash]
            /\ mu' = [mu EXCEPT ![i].w = TRUE]
    /\ UNCHANGED <<kvHash, kvVersion, chan, cache, version, adm, rd, kvUp>>

\* a reload that empties the cache before it reads the hash
Reload_HGetAll_ClearFirst(i, k) ==
    /\ rel[i][k].pc = "hgetall"
    /\ CanLock(i)
    /\ IF ~kvUp THEN /\ EndReload(i, k, "error")
                     /\ mu' = mu
                     /\ cache' = [cache EXCEPT ![i] = EmptyMap]
       ELSE IF DOMAIN kvHash = {} THEN /\ EndReload(i, k, "empty")
                                       /\ mu' = mu
                                       /\ cache' = cache
       ELSE /\ rel' = [rel EXCEPT ![i][k].pc = "swap", ![i][k].m = kvHash]
            /\ mu' = [mu EXCEPT ![i].w = TRUE]
            /\ cache' = cache
    /\ UNCHANGED <<kvHash, kvVersion, chan, version, adm, rd, kvUp>>

\* m.mu.Lock(); HGetAll; an error or an empty hash returns at once (deferred Unlock)
Reload_HGetAll(i, k) ==
    /\ rel[i][k].pc = "hgetall"
    /\ CanLock(i)
    /\ IF ~kvUp THEN /\ EndReload(i, k, "error")
                     /\ mu' = mu
       ELSE IF DOMAIN kvHash = {} THEN /\ EndReload(i, k, "empty")
                                       /\ mu' = mu
       ELSE /\ rel' = [rel EXCEPT ![i][k].pc = "swap", ![i][k].m = kvHash]
            /\ mu' = [mu EXCEPT ![i].w = TRUE]
    /\ UNCHANGED <<kvHash, kvVersion, chan, cache, version, adm, rd, kvUp>>

\* the second version check, then m.cache = newCache
Reload_Swap(i, k) ==
    /\ rel[i][k].pc = "swap"
    /\ IF SameVersion(i, rel[i][k].rv)
       THEN /\ EndReload(i, k, "skipped")
            /\ mu' = [mu EXCEPT ![i].w = FALSE]
            /\ cache' = cache
       ELSE /\ cache' = [cache EXCEPT ![i] = rel[i][k].m]
            /\ rel' = [rel EXCEPT ![i][k].pc = "store"]
            /\ mu' = mu
    /\ UNCHANGED <<kvHash, kvVersion, chan, version, adm, rd, kvUp>>

\* m.version.Store(remoteVersion), or m.version.Add(1) when Redis has no version
Reload_Store(i, k) ==
    /\ rel[i][k].pc = "store"
    /\ IF rel[i][k].rv > 0
       THEN /\ version' = [version EXCEPT ![i] = rel[i][k].rv]
            /\ EndReload(i, k, "reloaded")
            /\ mu' = [mu EXCEPT ![i].w = FALSE]
       ELSE /\ version' = [version EXCEPT ![i] = @ + 1]
            /\ rel' = [rel EXCEPT ![i][k].pc = "set"]
            /\ mu' = mu
    /\ UNCHANGED <<kvHash, kvVersion, chan, cache, adm, rd, kvUp>>

\* m.client.Set(ctx, KeyMappingsVersion, m.version.Load(), 0), its error ignored
Reload_Set(i, k) ==
    /\ rel[i][k].pc = "set"
    /\ kvVersion' = IF kvUp THEN version[i] ELSE kvVersion
    /\ EndReload(i, k, "reloaded")
    /\ mu' = [mu EXCEPT ![i].w = FALSE]
    /\ UNCHANGED <<kvHash, chan, cache, version, adm, rd, kvUp>>

\* back in the worker's select loop
Reload_Return(i, k) ==
    /\ rel[i][k].pc = "done"
    /\ rel' = [rel EXCEPT ![i][k] = IdleRel]
    /\ UNCHANGED <<kvHash, kvVersion, chan, cache, version, mu, adm, rd, kvUp>>

----
\* ForceReload, called by the admin reload endpoint

ForceReload(i) ==
    /\ adm[i].pc = "idle"
    /\ adm' = [adm EXCEPT ![i] = [IdleAdm EXCEPT !.pc = "f_hgetall", !.op = "force"]]
    /\ UNCHANGED <<kvHash, kvVersion, chan, cache, version, mu, rel, rd, kvUp>>

\* m.mu.Lock(); HGetAll; m.cache = newCache
Force_HGetAll(i) ==
    /\ adm[i].pc = "f_hgetall"
    /\ CanLock(i)
    /\ IF kvUp
       THEN /\ cache' = [cache EXCEPT ![i] = kvHash]
            /\ mu' = [mu EXCEPT ![i].w = TRUE]
            /\ adm' = [adm EXCEPT ![i].pc = "f_get"]
       ELSE /\ cache' = cache
            /\ mu' = mu
            /\ Finish(i, "error")
    /\ UNCHANGED <<kvHash, kvVersion, chan, version, rel, rd, kvUp>>

\* remoteVersion, err := Get(KeyMappingsVersion).Int64(); an error is logged
Force_Get(i) ==
    /\ adm[i].pc = "f_get"
    /\ adm' = [adm EXCEPT ![i].pc = "f_store", ![i].nv = IF kvUp THEN kvVersion ELSE 0]
    /\ UNCHANGED <<kvHash, kvVersion, chan, cache, version, mu, rel, rd, kvUp>>

\* if remoteVersion > 0 { m.version.Store(remoteVersion) }; deferred Unlock
Force_Store(i) ==
    /\ adm[i].pc = "f_store"
    /\ version' = [version EXCEPT ![i] = IF adm[i].nv > 0 THEN adm[i].nv ELSE @]
    /\ mu' = [mu EXCEPT ![i].w = FALSE]
    /\ Finish(i, "ok")
    /\ UNCHANGED <<kvHash, kvVersion, chan, cache, rel, rd, kvUp>>

----
\* Readers: GetMapping and GetAllMappings

EndRead(i, result) == rd' = [rd EXCEPT ![i].pc = "done", ![i].res = result]

\* a lookup that asks Redis whether or not the prefix is cached
GetMapping_AlwaysRedis(i, p) ==
    /\ rd[i].pc = "idle"
    /\ CanRLock(i)
    /\ rd' = [rd EXCEPT ![i] = [IdleRd EXCEPT !.pc = "hget", !.op = "get", !.p = p]]
    /\ UNCHANGED <<kvHash, kvVersion, chan, cache, version, mu, adm, rel, kvUp>>

\* RLock; target, ok := m.cache[prefix]; RUnlock; a hit returns the cached target
GetMapping(i, p) ==
    /\ rd[i].pc = "idle"
    /\ CanRLock(i)
    /\ IF p \in DOMAIN cache[i]
       THEN rd' = [rd EXCEPT ![i] = [IdleRd EXCEPT !.pc = "done", !.op = "get", !.p = p,
                                                   !.res = cache[i][p]]]
       ELSE rd' = [rd EXCEPT ![i] = [IdleRd EXCEPT !.pc = "hget", !.op = "get", !.p = p]]
    /\ UNCHANGED <<kvHash, kvVersion, chan, cache, version, mu, adm, rel, kvUp>>

\* cache miss: HGet(KeyMappings, prefix); redis.Nil is "mapping not found"
Get_HGet(i) ==
    /\ rd[i].pc = "hget"
    /\ IF ~kvUp THEN EndRead(i, "error")
       ELSE IF rd[i].p \notin DOMAIN kvHash THEN EndRead(i, "notfound")
       ELSE rd' = [rd EXCEPT ![i].pc = "fill", ![i].val = kvHash[rd[i].p]]
    /\ UNCHANGED <<kvHash, kvVersion, chan, cache, version, mu, adm, rel, kvUp>>

\* m.mu.Lock(); m.cache[prefix] = target; m.mu.Unlock(); return target
Get_Fill(i) ==
    /\ rd[i].pc = "fill"
    /\ CanLock(i)
    /\ cache' = [cache EXCEPT ![i] = Put(@, rd[i].p, rd[i].val)]
    /\ EndRead(i, rd[i].val)
    /\ UNCHANGED <<kvHash, kvVersion, chan, version, mu, adm, rel, kvUp>>

\* GetAllMappings: RLock, then the copy loop over m.cache.
\* rd[i].from is the cache at the moment the read lock was taken.
GetAllMappings(i) ==
    /\ rd[i].pc = "idle"
    /\ CanRLock(i)
    /\ mu' = [mu EXCEPT ![i].r = @ + 1]
    /\ rd' = [rd EXCEPT ![i] = [IdleRd EXCEPT !.pc = "copy", !.op = "all",
                                              !.todo = DOMAIN cache[i], !.from = cache[i]]]
    /\ UNCHANGED <<kvHash, kvVersion, chan, cache, version, adm, rel, kvUp>>

\* one iteration of: for k, v := range m.cache { result[k] = v }
GetAll_Copy(i) ==
    /\ rd[i].pc = "copy"
    /\ \E k \in rd[i].todo :
        rd' = [rd EXCEPT ![i].todo = @ \ {k},
                         ![i].acc = IF k \in DOMAIN cache[i] THEN Put(@, k, cache[i][k]) ELSE @]
    /\ UNCHANGED <<kvHash, kvVersion, chan, cache, version, mu, adm, rel, kvUp>>

\* the loop is over: deferred RUnlock, return result
GetAll_Return(i) ==
    /\ rd[i].pc = "copy"
    /\ rd[i].todo = {}
    /\ mu' = [mu EXCEPT ![i].r = @ - 1]
    /\ rd' = [rd EXCEPT ![i].pc = "done", ![i].res = "map"]
    /\ UNCHANGED <<kvHash, kvVersion, chan, cache, version, adm, rel, kvUp>>

\* the reader's caller has its result
Read_Return(i) ==
    /\ rd[i].pc = "done"
    /\ rd' = [rd EXCEPT ![i] = IdleRd]
    /\ UNCHANGED <<kvHash, kvVersion, chan, cache, version, mu, adm, rel, kvUp>>

----
\* The router: the NoRoute handler of main.go on instance 1

\* a matcher that compares the leading characters only
matchesPrefix_NoBoundary(pa, prefix) ==
    IF prefix = <<>> THEN FALSE
    ELSE IF prefix = <<"/">> THEN TRUE
    ELSE HasPrefix(pa, prefix)

matchesPrefix(pa, prefix) ==
    IF prefix = <<>> THEN FALSE
    ELSE IF prefix = <<"/">> THEN TRUE
    ELSE IF ~HasPrefix(pa, prefix) THEN FALSE
    ELSE IF Len(pa) = Len(prefix) THEN TRUE
    ELSE IF HasSuffix(prefix, <<"/">>) THEN TRUE
    ELSE pa[Len(prefix) + 1] = "/"

\* the first prefix of the slice that matches, in slice order
RECURSIVE findMatchingPrefix(_, _)
findMatchingPrefix(pa, ps) ==
    IF ps = <<>> THEN [prefix |-> <<>>, ok |-> FALSE]
    ELSE IF matchesPrefix(pa, Head(ps)) THEN [prefix |-> Head(ps), ok |-> TRUE]
    ELSE findMatchingPrefix(pa, Tail(ps))

\* a remainder that always gets a leading slash
remainingPathAfterPrefix_AlwaysSlash(pa, prefix) ==
    IF Len(pa) < Len(prefix) THEN <<>>
    ELSE <<"/">> \o SubSeq(pa, Len(prefix) + 1, Len(pa))

remainingPathAfterPrefix(pa, prefix) ==
    IF Len(pa) < Len(prefix) THEN <<>>
    ELSE LET remainder == SubSeq(pa, Len(prefix) + 1, Len(pa))
         IN IF remainder # <<>> /\ remainder[1] # "/" THEN <<"/">> \o remainder
            ELSE remainder

\* a request no other route serves: path := c.Request.URL.Path
NoRoute(pa) ==
    /\ route.pc = "idle"
    /\ path' = pa
    /\ prefixes' = <<>>
    /\ route' = [IdleRoute EXCEPT !.pc = "prefixes"]
    /\ UNCHANGED regVars

\* GetPrefixes: RLock; prefixes := make([]string, 0, len(m.cache))
GetPrefixes(i) ==
    /\ route.pc = "prefixes"
    /\ CanRLock(i)
    /\ mu' = [mu EXCEPT ![i].r = @ + 1]
    /\ route' = [route EXCEPT !.pc = "range", !.todo = DOMAIN cache[i]]
    /\ UNCHANGED <<kvHash, kvVersion, chan, cache, version, adm, rel, rd, kvUp, path, prefixes>>

\* one iteration of: for prefix := range m.cache { prefixes = append(prefixes, prefix) }
\* (a Go map is ranged over in an unspecified order)
GetPrefixes_Range(i) ==
    /\ route.pc = "range"
    /\ \E k \in route.todo :
        /\ prefixes' = Append(prefixes, k)
        /\ route' = [route EXCEPT !.todo = @ \ {k}]
    /\ UNCHANGED <<regVars, path>>

\* the loop is over: deferred RUnlock, return prefixes
GetPrefixes_Return(i) ==
    /\ route.pc = "range"
    /\ route.todo = {}
    /\ mu' = [mu EXCEPT ![i].r = @ - 1]
    /\ route' = [route EXCEPT !.pc = "match"]
    /\ UNCHANGED <<kvHash, kvVersion, chan, cache, version, adm, rel, rd, kvUp, path, prefixes>>

\* findMatchingPrefix, then remainingPathAfterPrefix and ProxyRequest, or the 404
Route_Match ==
    /\ route.pc = "match"
    /\ LET r == findMatchingPrefix(path, prefixes)
       IN route' = [route EXCEPT !.pc = IF r.ok THEN "proxy" ELSE "notfound",
                                 !.prefix = r.prefix,
                                 !.ok = r.ok,
                                 !.rest = IF r.ok THEN remainingPathAfterPrefix(path, r.prefix)
                                          ELSE <<>>]
    /\ UNCHANGED <<regVars, path, prefixes>>

\* the response has been written
Route_Respond ==
    /\ route.pc \in {"proxy", "notfound"}
    /\ path' = <<>>
    /\ prefixes' = <<>>
    /\ route' = IdleRoute
    /\ UNCHANGED regVars

----
\* Redis becomes unreachable (connection lost, timeouts) and comes back

Crash ==
    /\ kvUp
    /\ kvUp' = FALSE
    /\ UNCHANGED <<kvHash, kvVersion, chan, cache, version, mu, adm, rel, rd>>

Recover ==
    /\ ~kvUp
    /\ kvUp' = TRUE
    /\ UNCHANGED <<kvHash, kvVersion, chan, cache, version, mu, adm, rel, rd>>

----
\* The forwarder: ProxyRequest, its HTTP client, and the ResponseWriter

\* header names, as the request or the response carries them
H == [
    Connection |-> <<"C", "o", "n", "n", "e", "c", "t", "i", "o", "n">>,
    KeepAlive |-> <<"K", "e", "e", "p", "-", "A", "l", "i", "v", "e">>,
    TE |-> <<"T", "E">>,
    Upgrade |-> <<"U", "p", "g", "r", "a", "d", "e">>,
    XId |-> <<"X", "-", "I", "d">>,
    AcceptEncoding |-> <<"A", "c", "c", "e", "p", "t", "-", "E", "n", "c", "o", "d", "i", "n", "g">>,
    ContentEncoding |-> <<"C", "o", "n", "t", "e", "n", "t", "-", "E", "n", "c", "o", "d", "i", "n", "g">>,
    ContentLength |-> <<"C", "o", "n", "t", "e", "n", "t", "-", "L", "e", "n", "g", "t", "h">>,
    ContentType |-> <<"C", "o", "n", "t", "e", "n", "t", "-", "T", "y", "p", "e">>]

hopByHopHeaders == {
    <<"c", "o", "n", "n", "e", "c", "t", "i", "o", "n">>,
    <<"k", "e", "e", "p", "-", "a", "l", "i", "v", "e">>,
    <<"p", "r", "o", "x", "y", "-", "a", "u", "t", "h", "e", "n", "t", "i", "c", "a", "t", "e">>,
    <<"p", "r", "o", "x", "y", "-", "a", "u", "t", "h", "o", "r", "i", "z", "a", "t", "i", "o", "n">>,
    <<"t", "e">>,
    <<"t", "r", "a", "i", "l", "e", "r">>,
    <<"t", "r", "a", "n", "s", "f", "e", "r", "-", "e", "n", "c", "o", "d", "i", "n", "g">>,
    <<"u", "p", "g", "r", "a", "d", "e">>}

\* a copy that compares the names as they are written
copyHeaders_CaseSensitive(dst, src) ==
    LET kept == {n \in DOMAIN src : n \notin hopByHopHeaders}
    IN [n \in DOMAIN dst \cup kept |-> IF n \in kept THEN src[n] ELSE dst[n]]

\* for name, values := range src { if !hopByHopHeaders[ToLower(name)] { dst[name] = values } }
copyHeaders(dst, src) ==
    LET kept == {n \in DOMAIN src : ToLower(n) \notin hopByHopHeaders}
    IN [n \in DOMAIN dst \cup kept |-> IF n \in kept THEN src[n] ELSE dst[n]]

\* the context of a request that carries no deadline
NoDeadline == -1

\* the protective timeout of ProxyRequest, in seconds
GuardTimeout == 30

\* context.WithTimeout applied to every context: a deadline the context
\* carries already is kept only when it is the earlier one
guardDeadline_Always(d) ==
    [at |-> IF d = NoDeadline THEN GuardTimeout ELSE Min(d, GuardTimeout), guard |-> TRUE]

\* the deadline of the upstream request, in seconds from the call:
\* if _, hasDeadline := ctx.Deadline(); !hasDeadline { ctx, cancel = context.WithTimeout(ctx, 30*time.Second) }
guardDeadline(d) ==
    IF d = NoDeadline THEN [at |-> GuardTimeout, guard |-> TRUE]
    ELSE [at |-> d, guard |-> FALSE]

\* body bytes: "a", "b" are short chunks, "L" is a chunk that fills the write
\* buffer of the connection, "za" and "zb" are "a" and "b" gzip-coded,
\* "E" is the JSON error body of the handler
BigChunks == {"L"}

Gunzip(b) == [i \in 1..Len(b) |-> IF b[i] = "za" THEN "a" ELSE IF b[i] = "zb" THEN "b" ELSE b[i]]

\* http.Transport with DisableCompression unset asks for gzip itself when the
\* request names no Accept-Encoding
AsksGzip(h) == H.AcceptEncoding \notin DOMAIN h

TransportRequest(h) == IF AsksGzip(h) THEN Put(h, H.AcceptEncoding, <<"gzip">>) ELSE h

IsGzip(r) == H.ContentEncoding \in DOMAIN r.hdr /\ r.hdr[H.ContentEncoding] = <<"gzip">>

\* and then decodes a gzip response: Content-Encoding and Content-Length are
\* deleted, the body reader yields the decoded bytes
TransportResponse(asked, r) ==
    IF asked /\ IsGzip(r)
    THEN [status |-> r.status,
          hdr |-> Del(Del(r.hdr, H.ContentEncoding), H.ContentLength),
          body |-> Gunzip(r.body)]
    ELSE r

\* The ResponseWriter (gin's, over net/http's) and the client connection.
\* wire is what the client has received, buf what the server still holds back.

HeadItem(st, h) == [k |-> "head", status |-> st, hdr |-> h, b |-> "none"]

BodyItem(b) == [k |-> "body", status |-> 0, hdr |-> EmptyMap, b |-> b]

\* WriteHeader records the status; it is ignored once the head is written
WriteHeader(s, code) ==
    IF code > 0 /\ s.status # code /\ ~s.written THEN [s EXCEPT !.status = code] ELSE s

\* a writer that puts the bytes before the head
Write_BodyFirst(s, b) ==
    LET head == IF s.written THEN <<>> ELSE <<HeadItem(s.status, s.hdr)>>
    IN [s EXCEPT !.written = TRUE, !.buf = @ \o <<BodyItem(b)>> \o head]

\* Write: the first write commits status and headers in front of the bytes;
\* the bytes stay in the write buffer until it is full
Write(s, b) ==
    LET head == IF s.written THEN <<>> ELSE <<HeadItem(s.status, s.hdr)>>
        held == s.buf \o head \o <<BodyItem(b)>>
    IN IF s.gone THEN s
       ELSE IF b \in BigChunks THEN [s EXCEPT !.written = TRUE, !.wire = @ \o held, !.buf = <<>>]
       ELSE [s EXCEPT !.written = TRUE, !.buf = held]

\* c.JSON(code, obj): WriteHeader(code), Content-Type unless one is set, Write(body)
JSON(s, code, b) ==
    LET t == WriteHeader(s, code)
        u == IF H.ContentType \in DOMAIN t.hdr THEN t
             ELSE [t EXCEPT !.hdr = Put(@, H.ContentType, <<"application/json">>)]
    IN Write(u, b)

\* the handler has returned: the server writes the head if nothing was
\* written, and flushes the write buffer
FinishRequest(s) ==
    LET head == IF s.written THEN <<>> ELSE <<HeadItem(s.status, s.hdr)>>
    IN IF s.gone THEN [s EXCEPT !.written = TRUE, !.buf = <<>>]
       ELSE [s EXCEPT !.written = TRUE, !.wire = @ \o s.buf \o head, !.buf = <<>>]

NoResp == [status |-> 0, hdr |-> EmptyMap, body |-> <<>>]

IdleReq == [hdr |-> EmptyMap, deadline |-> NoDeadline, query |-> <<>>]

IdleFwd == [pc |-> "idle", target |-> "none", url |-> <<>>, deadline |-> NoDeadline, guard |-> FALSE,
            out |-> EmptyMap, asked |-> FALSE, resp |-> NoResp, pos |-> 0,
            chunk |-> "none", err |-> "none"]

IdleUp == [got |-> <<>>, url |-> <<>>, resp |-> NoResp]

IdleSink == [hdr |-> EmptyMap, status |-> 200, written |-> FALSE, buf |-> <<>>,
             wire |-> <<>>, gone |-> FALSE]

\* NewCollector: counters at zero, an empty event channel, the batch worker
\* in its select loop with an empty batch; two request goroutines call it
IdleCol == [requestCount |-> 0, errorCount |-> 0, droppedEvents |-> 0,
            eventChan |-> <<>>, batch |-> <<>>, pc |-> "select",
            endpoints |-> [e \in {"a"} |-> [Count |-> 0, ErrorCount |-> 0]],
            readers |-> 0, calls |-> 0, close |-> "none",
            caller |-> [c \in {1, 2} |-> [pc |-> "idle", steps |-> 0, e |-> "a", IsError |-> FALSE]]]

\* NewMappingManager has returned the manager: initialized, subscribed, both
\* workers running, Close not called
Running == [pc |-> "running", initialized |-> TRUE, stop |-> FALSE, exited |-> {},
            pubsub |-> "open", client |-> "open"]

AuxIdle ==
    /\ col = IdleCol
    /\ life = Running

\* no request is being forwarded; the forwarder was built without a
\* statsCollector and no stats middleware is installed
FwdIdle ==
    /\ req = IdleReq
    /\ fwd = IdleFwd
    /\ up = IdleUp
    /\ sink = IdleSink
    /\ obs = [on |-> FALSE, mw |-> FALSE, ev |-> <<>>, mwev |-> <<>>]

Init == RegInit /\ HistInit /\ RouteIdle /\ FwdIdle /\ AuxIdle

\* the observer is told, when the forwarder has one
Record(o, evs) == IF o.on THEN [o EXCEPT !.ev = @ \o evs] ELSE o

\* extractEndpoint: the first segment of the path
extractEndpoint(pa) ==
    LET rest == Tail(pa)
        slashes == {i \in DOMAIN rest : rest[i] = "/"}
        idx == IF slashes = {} THEN -1
               ELSE (CHOOSE i \in slashes : \A j \in slashes : i <= j) - 1
    IN IF Len(pa) <= 1 THEN <<"u", "n", "k", "n", "o", "w", "n">>
       ELSE IF idx > 0 THEN SubSeq(rest, 1, idx)
       ELSE rest

\* a request arrives: the stats middleware, when installed, calls
\* RecordRequest(endpoint) and c.Next(), which reaches the NoRoute handler
Request(q, pa) ==
    /\ NoRoute(pa)
    /\ req' = q
    /\ obs' = IF obs.mw THEN [obs EXCEPT !.mwev = @ \o << <<"request", extractEndpoint(pa)>> >>]
              ELSE obs
    /\ UNCHANGED <<fwd, up, sink>>

\* ProxyRequest: targetBase, err := p.mapper.GetMapping(r.Context(), prefix)
ProxyRequest ==
    /\ route.pc = "proxy"
    /\ fwd.pc = "idle"
    /\ GetMapping(1, route.prefix)
    /\ fwd' = [fwd EXCEPT !.pc = "mapping"]
    /\ UNCHANGED <<routeVars, req, up, sink, obs>>

\* targetURL := targetBase + rest; if r.URL.RawQuery != "" { targetURL += "?" + r.URL.RawQuery }
targetURL(targetBase, rest, rawQuery) ==
    TargetURL[targetBase] \o rest \o (IF rawQuery # <<>> THEN <<"?">> \o rawQuery ELSE <<>>)

\* the URL of the request http.NewRequestWithContext builds from the string:
\* url.Parse cuts the fragment off at the first "#" and lowers the scheme,
\* and a fragment is not sent
RequestURL(u) ==
    LET hashes == {i \in DOMAIN u : u[i] = "#"}
        cut == IF hashes = {} THEN u
               ELSE SubSeq(u, 1, (CHOOSE i \in hashes : \A j \in hashes : i <= j) - 1)
        colons == {i \in DOMAIN cut : cut[i] = ":"}
        first == IF colons = {} THEN 0 ELSE CHOOSE i \in colons : \A j \in colons : i <= j
    IN ToLower(SubSeq(cut, 1, first)) \o SubSeq(cut, first + 1, Len(cut))

\* a forwarder that tells the observer before it looks at the error
Proxy_Mapped_RecordFirst ==
    /\ fwd.pc = "mapping"
    /\ rd[1].pc = "done"
    /\ rd' = [rd EXCEPT ![1] = IdleRd]
    /\ obs' = Record(obs, << <<"request", route.prefix>> >>)
    /\ IF rd[1].res \in {"error", "notfound"}
       THEN fwd' = [fwd EXCEPT !.pc = "return", !.err = rd[1].res]
       ELSE fwd' = [fwd EXCEPT !.pc = "guard", !.target = rd[1].res,
                               !.url = targetURL(rd[1].res, route.rest, req.query)]
    /\ UNCHANGED <<kvHash, kvVersion, chan, cache, version, mu, adm, rel, kvUp,
                   routeVars, req, up, sink>>

\* GetMapping has returned: its error is returned as it is; otherwise
\* RecordRequest(prefix) and targetURL := targetBase + rest
Proxy_Mapped ==
    /\ fwd.pc = "mapping"
    /\ rd[1].pc = "done"
    /\ rd' = [rd EXCEPT ![1] = IdleRd]
    /\ IF rd[1].res \in {"error", "notfound"}
       THEN /\ fwd' = [fwd EXCEPT !.pc = "return", !.err = rd[1].res]
            /\ obs' = obs
       ELSE /\ fwd' = [fwd EXCEPT !.pc = "guard", !.target = rd[1].res,
                                  !.url = targetURL(rd[1].res, route.rest, req.query)]
            /\ obs' = Record(obs, << <<"request", route.prefix>> >>)
    /\ UNCHANGED <<kvHash, kvVersion, chan, cache, version, mu, adm, rel, kvUp,
                   routeVars, req, up, sink>>

\* the deadline guard, http.NewRequestWithContext (url.Parse of the target
\* URL may fail) and copyHeaders(proxyReq.Header, r.Header)
Proxy_Guard ==
    /\ fwd.pc = "guard"
    /\ LET g == guardDeadline(req.deadline)
       IN IF Parse(fwd.url).err
          THEN /\ fwd' = [fwd EXCEPT !.pc = "return", !.err = "newrequest",
                                     !.deadline = g.at, !.guard = g.guard]
               /\ obs' = Record(obs, << <<"error", route.prefix>> >>)
          ELSE /\ fwd' = [fwd EXCEPT !.pc = "do", !.deadline = g.at, !.guard = g.guard,
                                     !.out = copyHeaders(EmptyMap, req.hdr)]
               /\ obs' = obs
    /\ UNCHANGED <<regVars, routeVars, req, up, sink>>

\* p.client.Do(proxyReq): the upstream cannot be reached, or it receives the request
Proxy_Dial ==
    /\ fwd.pc = "do"
    /\ \/ /\ fwd' = [fwd EXCEPT !.pc = "return", !.err = "dial"]
          /\ obs' = Record(obs, << <<"error", route.prefix>> >>)
          /\ up' = up
       \/ /\ fwd' = [fwd EXCEPT !.pc = "head", !.asked = AsksGzip(fwd.out)]
          /\ up' = [up EXCEPT !.got = Append(@, TransportRequest(fwd.out)),
                              !.url = RequestURL(fwd.url)]
          /\ obs' = obs
    /\ UNCHANGED <<regVars, routeVars, req, sink>>

\* the responses an upstream produces
Responses == {
    [status |-> 200,
     hdr |-> (H.ContentType :> <<"text/event-stream">>) @@ (H.Connection :> <<"keep-alive">>),
     body |-> <<"a", "b">>],
    [status |-> 404,
     hdr |-> (H.XId :> <<"1", "2">>) @@ (H.KeepAlive :> <<"timeout=5">>),
     body |-> <<"a">>],
    [status |-> 200,
     hdr |-> (H.ContentEncoding :> <<"gzip">>) @@ (H.ContentLength :> <<"2">>),
     body |-> <<"za", "zb">>],
    [status |-> 200,
     hdr |-> (H.XId :> <<"1">>),
     body |-> <<"L", "a">>],
    [status |-> 502,
     hdr |-> EmptyMap,
     body |-> <<>>]}

\* the requests a client sends
Requests == {
    [hdr |-> (H.XId :> <<"1", "2">>) @@ (H.Connection :> <<"close">>),
     deadline |-> NoDeadline, query |-> <<>>],
    [hdr |-> (H.AcceptEncoding :> <<"gzip">>) @@ (H.TE :> <<"trailers">>) @@ (H.Upgrade :> <<"h2c">>),
     deadline |-> 60, query |-> <<"x", "=", "1">>],
    [hdr |-> (H.XId :> <<"3">>),
     deadline |-> 10, query |-> <<>>]}

\* an upstream codes its body with gzip only for a request that accepts it
Acceptable(r, h) ==
    IsGzip(r) => (H.AcceptEncoding \in DOMAIN h /\ h[H.AcceptEncoding] = <<"gzip">>)

\* p.client.Do(proxyReq) returns: the response head cannot be read (or the
\* deadline passes), or the head of the upstream's response arrives
Proxy_Head ==
    /\ fwd.pc = "head"
    /\ \/ /\ fwd' = [fwd EXCEPT !.pc = "return", !.err = "head"]
          /\ obs' = Record(obs, << <<"error", route.prefix>> >>)
          /\ up' = up
       \/ \E r \in Responses :
          /\ Acceptable(r, up.got[Len(up.got)])
          /\ up' = [up EXCEPT !.resp = r]
          /\ fwd' = [fwd EXCEPT !.pc = "writehead", !.resp = TransportResponse(fwd.asked, r)]
          /\ obs' = obs
    /\ UNCHANGED <<regVars, routeVars, req, sink>>

\* copyHeaders(w.Header(), resp.Header); w.WriteHeader(resp.StatusCode)
Proxy_WriteHead ==
    /\ fwd.pc = "writehead"
    /\ sink' = WriteHeader([sink EXCEPT !.hdr = copyHeaders(@, fwd.resp.hdr)], fwd.resp.status)
    /\ fwd' = [fwd EXCEPT !.pc = "read"]
    /\ UNCHANGED <<regVars, routeVars, req, up, obs>>

\* io.Copy(w, resp.Body), the read half: the next chunk, the end of the body,
\* or a read error (the upstream breaks off, the deadline passes)
Copy_Read ==
    /\ fwd.pc = "read"
    /\ \/ /\ fwd.pos < Len(fwd.resp.body)
          /\ fwd' = [fwd EXCEPT !.pc = "write", !.pos = @ + 1,
                                !.chunk = fwd.resp.body[fwd.pos + 1]]
       \/ /\ fwd.pos = Len(fwd.resp.body)
          /\ fwd' = [fwd EXCEPT !.pc = "finish"]
       \/ fwd' = [fwd EXCEPT !.pc = "finish", !.err = "read"]
    /\ UNCHANGED <<regVars, routeVars, req, up, sink, obs>>

\* io.Copy(w, resp.Body), the write half: w.Write(chunk), which fails when
\* the client has gone
Copy_Write ==
    /\ fwd.pc = "write"
    /\ \/ /\ sink' = Write(sink, fwd.chunk)
          /\ fwd' = [fwd EXCEPT !.pc = "read"]
       \/ /\ sink' = [sink EXCEPT !.gone = TRUE]
          /\ fwd' = [fwd EXCEPT !.pc = "finish", !.err = "write"]
    /\ UNCHANGED <<regVars, routeVars, req, up, obs>>

\* UpdateResponseMetrics; RecordError for a status >= 400; return copyErr
Proxy_Finish ==
    /\ fwd.pc = "finish"
    /\ obs' = Record(obs, << <<"metrics", route.prefix>> >>
                          \o (IF fwd.resp.status >= 400 THEN << <<"error", route.prefix>> >>
                              ELSE <<>>))
    /\ fwd' = [fwd EXCEPT !.pc = "return"]
    /\ UNCHANGED <<regVars, routeVars, req, up, sink>>

\* the NoRoute handler, ProxyRequest returned an error:
\* c.JSON(500, gin.H{"error": err.Error()})
Handler_Error ==
    /\ route.pc = "proxy"
    /\ fwd.pc = "return"
    /\ fwd.err # "none"
    /\ sink' = JSON(sink, 500, "E")
    /\ fwd' = [fwd EXCEPT !.pc = "returned"]
    /\ route' = [route EXCEPT !.pc = "finish"]
    /\ UNCHANGED <<regVars, path, prefixes, req, up, obs>>

\* the NoRoute handler, ProxyRequest returned nil
Handler_Return ==
    /\ route.pc = "proxy"
    /\ fwd.pc = "return"
    /\ fwd.err = "none"
    /\ fwd' = [fwd EXCEPT !.pc = "returned"]
    /\ route' = [route EXCEPT !.pc = "finish"]
    /\ UNCHANGED <<regVars, path, prefixes, req, up, sink, obs>>

\* the NoRoute handler, no prefix matched: c.JSON(404, ...)
Handler_NotFound ==
    /\ route.pc = "notfound"
    /\ sink' = JSON(sink, 404, "N")
    /\ route' = [route EXCEPT !.pc = "finish"]
    /\ UNCHANGED <<regVars, path, prefixes, req, fwd, up, obs>>

\* a middleware that records no error
Stats_After_NoError ==
    /\ route.pc = "finish"
    /\ route' = [route EXCEPT !.pc = "after"]
    /\ obs' = IF obs.mw
              THEN [obs EXCEPT !.mwev = @ \o << <<"metrics", extractEndpoint(path)>> >>]
              ELSE obs
    /\ UNCHANGED <<regVars, path, prefixes, req, fwd, up, sink>>

\* c.Next() has returned to the stats middleware, when one is installed:
\* UpdateResponseMetrics; if c.Writer.Status() >= 400 { RecordError(endpoint) }
Stats_After ==
    /\ route.pc = "finish"
    /\ route' = [route EXCEPT !.pc = "after"]
    /\ obs' = IF obs.mw
              THEN [obs EXCEPT !.mwev = @ \o << <<"metrics", extractEndpoint(path)>> >>
                                           \o (IF sink.status >= 400
                                               THEN << <<"error", extractEndpoint(path)>> >>
                                               ELSE <<>>)]
              ELSE obs
    /\ UNCHANGED <<regVars, path, prefixes, req, fwd, up, sink>>

\* the handlers have returned, the server ends the response
Server_Finish ==
    /\ route.pc = "after"
    /\ sink' = FinishRequest(sink)
    /\ route' = [route EXCEPT !.pc = "served"]
    /\ UNCHANGED <<regVars, path, prefixes, req, fwd, up, obs>>

\* the request is over; nothing of it is kept
Served ==
    /\ route.pc = "served"
    /\ path' = <<>>
    /\ prefixes' = <<>>
    /\ route' = IdleRoute
    /\ req' = IdleReq
    /\ fwd' = IdleFwd
    /\ up' = IdleUp
    /\ sink' = IdleSink
    /\ obs' = [obs EXCEPT !.ev = <<>>, !.mwev = <<>>]
    /\ UNCHANGED regVars

----
\* The statistics Collector: RecordRequest and RecordError on the request
\* path, the batch worker behind the event channel

\* RecordRequest(endpoint) / RecordError(endpoint), first step: the atomic add
RecordEvent(c, e, isError) ==
    /\ col.caller[c].pc = "idle"
    /\ col.calls < MaxStatCalls
    /\ col.close = "none"
    /\ col' = [col EXCEPT !.calls = @ + 1,
                          !.requestCount = IF isError THEN @ ELSE @ + 1,
                          !.errorCount = IF isError THEN @ + 1 ELSE @,
                          !.caller[c] = [pc |-> "send", steps |-> 1, e |-> e, IsError |-> isError]]
    /\ UNCHANGED <<regVars, histVars, routeVars, fwdVars, life>>

\* a send that waits for room in the channel
Record_Send_Blocking(c) ==
    /\ col.caller[c].pc = "send"
    /\ Len(col.eventChan) < QueueCap
    /\ col' = [col EXCEPT !.eventChan = Append(@, [Endpoint |-> col.caller[c].e,
                                                    IsError |-> col.caller[c].IsError]),
                          !.caller[c].pc = "idle", !.caller[c].steps = 2]
    /\ UNCHANGED <<regVars, histVars, routeVars, fwdVars, life>>

\* select { case c.eventChan <- RequestEvent{...}: default: atomic.AddInt64(&c.droppedEvents, 1) }
Record_Send(c) ==
    /\ col.caller[c].pc = "send"
    /\ IF col.close = "closed"
       THEN col' = [col EXCEPT !.caller[c].pc = "panic", !.caller[c].steps = 2]
       ELSE IF Len(col.eventChan) < QueueCap
       THEN col' = [col EXCEPT !.eventChan = Append(@, [Endpoint |-> col.caller[c].e,
                                                        IsError |-> col.caller[c].IsError]),
                               !.caller[c].pc = "idle", !.caller[c].steps = 2]
       ELSE col' = [col EXCEPT !.droppedEvents = @ + 1,
                               !.caller[c].pc = "idle", !.caller[c].steps = 2]
    /\ UNCHANGED <<regVars, histVars, routeVars, fwdVars, life>>

\* one turn of the select loop of batchProcessor: an event is taken from the
\* channel (the batch is processed when it is full), or the ticker fires
\* (the batch is processed when it holds anything), or the context is done
\* (the batch is processed when it holds anything, and the worker returns);
\* select takes any of the cases that are ready
batchProcessor ==
    /\ col.pc = "select"
    /\ \/ /\ col.eventChan # <<>>
          /\ col' = [col EXCEPT !.eventChan = Tail(@),
                                !.batch = Append(@, Head(col.eventChan)),
                                !.pc = IF Len(col.batch) + 1 >= BatchCap THEN "process" ELSE "select"]
       \/ /\ col.batch # <<>>
          /\ col' = [col EXCEPT !.pc = "process"]
       \/ /\ col.close # "none"
          /\ col' = [col EXCEPT !.pc = IF col.batch # <<>> THEN "last" ELSE "exited"]
    /\ UNCHANGED <<regVars, histVars, routeVars, fwdVars, life>>

\* processBatch under c.mu.Lock(), then batch = batch[:0]
processBatch ==
    /\ col.pc \in {"process", "last"}
    /\ col.readers = 0
    /\ LET of(e) == {i \in DOMAIN col.batch : col.batch[i].Endpoint = e}
           errs(e) == {i \in of(e) : col.batch[i].IsError}
       IN col' = [col EXCEPT !.endpoints = [e \in DOMAIN @ |->
                                              [Count |-> @[e].Count + Cardinality(of(e)),
                                               ErrorCount |-> @[e].ErrorCount + Cardinality(errs(e))]],
                             !.batch = <<>>,
                             !.pc = IF col.pc = "last" THEN "exited" ELSE "select"]
    /\ UNCHANGED <<regVars, histVars, routeVars, fwdVars, life>>

\* GetStats: c.mu.RLock(), the copy, the deferred RUnlock
GetStats ==
    /\ \/ col.readers = 0 /\ col' = [col EXCEPT !.readers = 1]
       \/ col.readers = 1 /\ col' = [col EXCEPT !.readers = 0]
    /\ UNCHANGED <<regVars, histVars, routeVars, fwdVars, life>>

\* Collector.Close: c.cancel(), then c.wg.Wait() until the batch worker has
\* returned, then close(c.eventChan)
Collector_Close ==
    /\ \/ col.close = "none" /\ col' = [col EXCEPT !.close = "wait"]
       \/ col.close = "wait" /\ col.pc = "exited" /\ col' = [col EXCEPT !.close = "closed"]
    /\ UNCHANGED <<regVars, histVars, routeVars, fwdVars, life>>

NextStats ==
    \/ \E c \in DOMAIN col.caller, e \in DOMAIN col.endpoints, isError \in BOOLEAN : RecordEvent(c, e, isError)
    \/ \E c \in DOMAIN col.caller : Record_Send(c)
    \/ batchProcessor
    \/ processBatch
    \/ GetStats
    \/ Collector_Close

SpecStats == Init /\ [][NextStats]_vars

----
\* The registry: two instances over one Redis

\* the calls in progress
Active ==
    Cardinality({i \in Inst : adm[i].pc # "idle"})
    + Cardinality({ik \in Inst \X Workers : rel[ik[1]][ik[2]].pc # "idle"})
    + Cardinality({i \in Inst : rd[i].pc # "idle"})

\* a call begins while fewer than MaxActive are in progress
Start(A, max) ==
    /\ Active < MaxActive
    /\ calls < max
    /\ calls' = calls + 1
    /\ A
    /\ UNCHANGED <<before, prev, routeVars, fwdVars, col, life>>

\* a call in progress, or the environment, takes a step
Run(A) == A /\ UNCHANGED <<histVars, routeVars, fwdVars, col, life>>

\* Concurrent mutations of one prefix and background reloads on both
\* instances, over a reachable Redis
Contended == {<<"/", "a">>}

Next ==
    \/ \E i \in Inst, p \in Contended, t \in Targets : Start(AddMapping(i, p, t), MaxCalls)
    \/ \E i \in Inst, p \in Contended, t \in Targets : Start(UpdateMapping(i, p, t), MaxCalls)
    \/ \E i \in Inst, p \in Contended : Start(DeleteMapping(i, p), MaxCalls)
    \/ \E i \in Inst : Start(Tick(i), MaxCalls)
    \/ \E i \in Inst : Start(Receive(i), MaxCalls)
    \/ \E i \in Inst : Run(Mutate_HExists(i))
    \/ \E i \in Inst : Run(Mutate_HWrite(i))
    \/ \E i \in Inst : Run(Mutate_Incr(i))
    \/ \E i \in Inst : Run(Mutate_Cache(i))
    \/ \E i \in Inst : Run(Mutate_Version(i))
    \/ \E i \in Inst : Run(Mutate_Publish(i))
    \/ \E i \in Inst : Run(Admin_Return(i))
    \/ \E i \in Inst : Run(LoseMessage(i))
    \/ \E i \in Inst, k \in Workers : Run(Reload_Get(i, k))
    \/ \E i \in Inst, k \in Workers : Run(Reload_Compare(i, k))
    \/ \E i \in Inst, k \in Workers : Run(Reload_HGetAll(i, k))
    \/ \E i \in Inst, k \in Workers : Run(Reload_Swap(i, k))
    \/ \E i \in Inst, k \in Workers : Run(Reload_Store(i, k))
    \/ \E i \in Inst, k \in Workers : Run(Reload_Set(i, k))
    \/ \E i \in Inst, k \in Workers : Run(Reload_Return(i, k))

Spec == Init /\ [][Next]_vars

----
\* Sequential runs of admin mutations and reads over a Redis that may become
\* unreachable at any moment: a call begins only when every other call has
\* returned.  before is the state at the start of the running call, prev the
\* admin call that returned last, kept while the call that follows it is a
\* GetMapping of the same prefix on the same instance.

Returned ==
    IF \E i \in Inst : adm[i].pc = "done" /\ adm'[i].pc = "idle"
    THEN LET i == CHOOSE j \in Inst : adm[j].pc = "done" /\ adm'[j].pc = "idle"
         IN [inst |-> i, op |-> adm[i].op, p |-> adm[i].p, t |-> adm[i].t, res |-> adm[i].res]
    ELSE IF \E i \in Inst : rd[i].pc = "done" /\ rd'[i].pc = "idle" THEN NoCall
    ELSE prev

FollowsWithGet ==
    /\ prev.inst \in Inst
    /\ rd'[prev.inst].pc # "idle"
    /\ rd'[prev.inst].op = "get"
    /\ rd'[prev.inst].p = prev.p

StartSeq(A) ==
    /\ Active = 0
    /\ calls < MaxSeqCalls
    /\ calls' = calls + 1
    /\ A
    /\ before' = Snapshot
    /\ prev' = IF FollowsWithGet THEN prev ELSE NoCall
    /\ UNCHANGED <<routeVars, fwdVars, col, life>>

RunSeq(A) ==
    /\ A
    /\ calls' = calls
    /\ prev' = Returned
    /\ before' = IF Active' = 0 THEN Snapshot' ELSE before
    /\ UNCHANGED <<routeVars, fwdVars, col, life>>

NextSeq ==
    \/ \E i \in Inst, p \in Prefixes, t \in Targets : StartSeq(AddMapping(i, p, t))
    \/ \E i \in Inst, p \in Prefixes, t \in Targets : StartSeq(UpdateMapping(i, p, t))
    \/ \E i \in Inst, p \in Prefixes : StartSeq(DeleteMapping(i, p))
    \/ \E i \in Inst, p \in Prefixes : StartSeq(GetMapping(i, p))
    \/ \E i \in Inst : StartSeq(GetAllMappings(i))
    \/ \E i \in Inst : RunSeq(Mutate_HExists(i))
    \/ \E i \in Inst : RunSeq(Mutate_HWrite(i))
    \/ \E i \in Inst : RunSeq(Mutate_Incr(i))
    \/ \E i \in Inst : RunSeq(Mutate_Cache(i))
    \/ \E i \in Inst : RunSeq(Mutate_Version(i))
    \/ \E i \in Inst : RunSeq(Mutate_Publish(i))
    \/ \E i \in Inst : RunSeq(Admin_Return(i))
    \/ \E i \in Inst : RunSeq(Get_HGet(i))
    \/ \E i \in Inst : RunSeq(Get_Fill(i))
    \/ \E i \in Inst : RunSeq(GetAll_Copy(i))
    \/ \E i \in Inst : RunSeq(GetAll_Return(i))
    \/ \E i \in Inst : RunSeq(Read_Return(i))
    \/ Run(Crash)
    \/ Run(Recover)

SpecSeq == Init /\ [][NextSeq]_vars

----
\* Add and Update on one instance, one call at a time, with whatever the
\* admin surface submits: prefixes and targets that validateMapping refuses among them

AnyPrefixes == {<<>>, <<"a">>, <<"/", " ", "a">>, <<"/", "a">>}

NextValid ==
    \/ \E p \in AnyPrefixes, t \in DOMAIN TargetURL : StartSeq(AddMapping(1, p, t))
    \/ \E p \in AnyPrefixes, t \in DOMAIN TargetURL : StartSeq(UpdateMapping(1, p, t))
    \/ RunSeq(Mutate_HExists(1))
    \/ RunSeq(Mutate_HWrite(1))
    \/ RunSeq(Mutate_Incr(1))
    \/ RunSeq(Mutate_Cache(1))
    \/ RunSeq(Mutate_Version(1))
    \/ RunSeq(Mutate_Publish(1))
    \/ RunSeq(Admin_Return(1))
    \/ Run(Crash)
    \/ Run(Recover)

SpecValid == Init /\ [][NextValid]_vars

----
\* The admin API of instance 1 behind AdminAuthMiddleware, one request at a
\* time: ADMIN_TOKEN unset or set, and the Authorization headers a client sends

NextAuth ==
    \/ \E tok \in {<<>>, <<"s">>},
          hdr \in {<<>>, <<"s">>, <<"x">>, <<" ">>, <<"s", "x">>,
                   <<"B", "e", "a", "r", "e", "r", " ", "s">>,
                   <<"B", "e", "a", "r", "e", "r", " ", "x">>,
                   <<"B", "e", "a", "r", "e", "r", " ", " ", "s", " ">>,
                   <<"b", "e", "a", "r", "e", "r", " ", "s">>,
                   <<"B", "e", "a", "r", "e", "r", " ">>},
          op \in {"add", "update", "delete"}, p \in Prefixes, t \in Targets :
            StartSeq(AdminAuthMiddleware(1, tok, hdr, op, p, IF op = "delete" THEN "none" ELSE t))
    \/ adm[1].pc = "next" /\ RunSeq(Begin(1, adm[1].op, adm[1].p, adm[1].t))
    \/ RunSeq(Mutate_HExists(1))
    \/ RunSeq(Mutate_HWrite(1))
    \/ RunSeq(Mutate_Incr(1))
    \/ RunSeq(Mutate_Cache(1))
    \/ RunSeq(Mutate_Version(1))
    \/ RunSeq(Mutate_Publish(1))
    \/ RunSeq(Admin_Return(1))

SpecAuth == Init /\ [][NextAuth]_vars

----
\* The poller and the listener of instance 1, one reload at a time, between
\* the peer's mutations, over a Redis that may become unreachable at any
\* moment (a command that fails, an expired reload deadline)

NextReload ==
    \/ \E p \in Prefixes, t \in Targets : StartSeq(AddMapping(2, p, t))
    \/ \E p \in Prefixes, t \in Targets : StartSeq(UpdateMapping(2, p, t))
    \/ \E p \in Prefixes : StartSeq(DeleteMapping(2, p))
    \/ StartSeq(Tick(1))
    \/ StartSeq(Receive(1))
    \/ RunSeq(Mutate_HExists(2))
    \/ RunSeq(Mutate_HWrite(2))
    \/ RunSeq(Mutate_Incr(2))
    \/ RunSeq(Mutate_Cache(2))
    \/ RunSeq(Mutate_Version(2))
    \/ RunSeq(Mutate_Publish(2))
    \/ RunSeq(Admin_Return(2))
    \/ \E k \in Workers : RunSeq(Reload_Get(1, k))
    \/ \E k \in Workers : RunSeq(Reload_Compare(1, k))
    \/ \E k \in Workers : RunSeq(Reload_HGetAll(1, k))
    \/ \E k \in Workers : RunSeq(Reload_Swap(1, k))
    \/ \E k \in Workers : RunSeq(Reload_Store(1, k))
    \/ \E k \in Workers : RunSeq(Reload_Set(1, k))
    \/ \E k \in Workers : RunSeq(Reload_Return(1, k))
    \/ Run(Crash)
    \/ Run(Recover)

SpecReload == Init /\ [][NextReload]_vars

----
\* Instance 1 reads and reloads while its peer mutates, over a reachable Redis

NextOne ==
    \/ \E p \in Contended, t \in Targets : Start(AddMapping(2, p, t), MaxOneCalls)
    \/ \E p \in Contended, t \in Targets : Start(UpdateMapping(2, p, t), MaxOneCalls)
    \/ \E p \in Contended : Start(DeleteMapping(2, p), MaxOneCalls)
    \/ Start(Tick(1), MaxOneCalls)
    \/ Start(Receive(1), MaxOneCalls)
    \/ Start(ForceReload(1), MaxOneCalls)
    \/ \E p \in Contended : Start(GetMapping(1, p), MaxOneCalls)
    \/ Start(GetAllMappings(1), MaxOneCalls)
    \/ Run(Mutate_HExists(2))
    \/ Run(Mutate_HWrite(2))
    \/ Run(Mutate_Incr(2))
    \/ Run(Mutate_Cache(2))
    \/ Run(Mutate_Version(2))
    \/ Run(Mutate_Publish(2))
    \/ \E i \in Inst : Run(Admin_Return(i))
    \/ \E i \in Inst : Run(LoseMessage(i))
    \/ Run(Force_HGetAll(1))
    \/ Run(Force_Get(1))
    \/ Run(Force_Store(1))
    \/ \E k \in Workers : Run(Reload_Get(1, k))
    \/ \E k \in Workers : Run(Reload_Compare(1, k))
    \/ \E k \in Workers : Run(Reload_HGetAll(1, k))
    \/ \E k \in Workers : Run(Reload_Swap(1, k))
    \/ \E k \in Workers : Run(Reload_Store(1, k))
    \/ \E k \in Workers : Run(Reload_Set(1, k))
    \/ \E k \in Workers : Run(Reload_Return(1, k))
    \/ Run(Get_HGet(1))
    \/ Run(Get_Fill(1))
    \/ Run(GetAll_Copy(1))
    \/ Run(GetAll_Return(1))
    \/ Run(Read_Return(1))

SpecOne == Init /\ [][NextOne]_vars

----
\* One instance on its own: its admin mutations, its lookups and its two
\* workers interleave over a reachable Redis

NextMix ==
    \/ \E p \in Contended, t \in Targets : Start(AddMapping(1, p, t), MaxMixCalls)
    \/ \E p \in Contended, t \in Targets : Start(UpdateMapping(1, p, t), MaxMixCalls)
    \/ \E p \in Contended : Start(DeleteMapping(1, p), MaxMixCalls)
    \/ \E p \in Contended : Start(GetMapping(1, p), MaxMixCalls)
    \/ Start(Tick(1), MaxMixCalls)
    \/ Start(Receive(1), MaxMixCalls)
    \/ Run(Mutate_HExists(1))
    \/ Run(Mutate_HWrite(1))
    \/ Run(Mutate_Incr(1))
    \/ Run(Mutate_Cache(1))
    \/ Run(Mutate_Version(1))
    \/ Run(Mutate_Publish(1))
    \/ Run(Admin_Return(1))
    \/ Run(LoseMessage(1))
    \/ Run(Get_HGet(1))
    \/ Run(Get_Fill(1))
    \/ Run(Read_Return(1))
    \/ \E k \in Workers : Run(Reload_Get(1, k))
    \/ \E k \in Workers : Run(Reload_Compare(1, k))
    \/ \E k \in Workers : Run(Reload_HGetAll(1, k))
    \/ \E k \in Workers : Run(Reload_Swap(1, k))
    \/ \E k \in Workers : Run(Reload_Store(1, k))
    \/ \E k \in Workers : Run(Reload_Set(1, k))
    \/ \E k \in Workers : Run(Reload_Return(1, k))

SpecMix == Init /\ [][NextMix]_vars

----
\* Routing over a registry that holds any set of the prefixes RoutePrefixes

RoutePrefixes == {<<"/">>, <<"/", "a">>, <<"/", "a", "/">>, <<"/", "a", "/", "b">>}

Paths == {<<"/", "a">>, <<"/", "a", "b">>, <<"/", "a", "/", "b">>,
          <<"/", "a", "/", "b", "/", "c">>, <<"/", "c">>}

\* the registry after one successful AddMapping for each prefix of ps
Registered(ps) == Constructed([p \in ps |-> "t1"], Cardinality(ps))

InitRoute ==
    /\ \E ps \in SUBSET RoutePrefixes : Registered(ps)
    /\ HistInit
    /\ RouteIdle
    /\ FwdIdle
    /\ AuxIdle

NextRoute ==
    \/ \E pa \in Paths : NoRoute(pa) /\ UNCHANGED <<histVars, fwdVars, col, life>>
    \/ GetPrefixes(1) /\ UNCHANGED <<histVars, fwdVars, col, life>>
    \/ GetPrefixes_Range(1) /\ UNCHANGED <<histVars, fwdVars, col, life>>
    \/ GetPrefixes_Return(1) /\ UNCHANGED <<histVars, fwdVars, col, life>>
    \/ Route_Match /\ UNCHANGED <<histVars, fwdVars, col, life>>
    \/ Route_Respond /\ UNCHANGED <<histVars, fwdVars, col, life>>

SpecRoute == InitRoute /\ [][NextRoute]_vars

----
\* The matcher applied to any path and a registry that holds any one string as
\* its prefix (reloadMappings loads the hash as it finds it, unvalidated)

MatchPaths == {<<>>, <<"/">>, <<"/", "a">>, <<"/", "a", "b">>, <<"/", "a", "/">>,
               <<"/", "a", "/", "b">>, <<"/", "a", "b", "/", "c">>, <<"/", "b">>,
               <<"/", "b", "/", "a">>, <<"a">>, <<"/", "/", "a">>}

MatchPrefixes == {<<>>, <<"/">>, <<"/", "a">>, <<"/", "a", "/">>, <<"/", "a", "b">>,
                  <<"/", "a", "/", "b">>, <<"/", "b">>, <<"a">>}

\* the handler holds the one-prefix slice GetPrefixes returned for the request
InitMatch ==
    /\ \E pa \in MatchPaths, q \in MatchPrefixes :
        /\ Constructed([p \in {q} |-> "t1"], 1)
        /\ path = pa
        /\ prefixes = <<q>>
    /\ route = [IdleRoute EXCEPT !.pc = "match"]
    /\ HistInit
    /\ FwdIdle
    /\ AuxIdle

NextMatch ==
    \/ Route_Match /\ UNCHANGED <<histVars, fwdVars, col, life>>
    \/ Route_Respond /\ UNCHANGED <<histVars, fwdVars, col, life>>

SpecMatch == InitMatch /\ [][NextMatch]_vars

----
\* Requests through the NoRoute handler and the forwarder of instance 1, whose
\* registry holds the prefix /a, while an admin may delete that prefix there
\* and an admin of the peer may add it again

MaxFwdCalls == 2

FwdPaths == {<<"/", "a">>, <<"/", "a", "/", "b">>, <<"/", "a", "/", "%">>, <<"/", "c">>,
             <<"/", "a", "/", "#", "b">>}

\* the forwarder is built with a statsCollector (NewTransparentProxy(mapper,
\* statsCollector)) or without one (NewTransparentProxy(mapper), as main
\* builds it); main installs the stats middleware next to a forwarder
\* without collector unless ENABLE_STATS is "false"
InitFwd ==
    /\ Registered({<<"/", "a">>})
    /\ HistInit
    /\ RouteIdle
    /\ req = IdleReq
    /\ fwd = IdleFwd
    /\ up = IdleUp
    /\ sink = IdleSink
    /\ \E on \in BOOLEAN, mw \in BOOLEAN :
        /\ ~(on /\ mw)
        /\ obs = [on |-> on, mw |-> mw, ev |-> <<>>, mwev |-> <<>>]
    /\ AuxIdle

\* a step of the handler or of the forwarder
Step(A) == A /\ UNCHANGED <<histVars, col, life>>

\* a step of the router
RouteStep(A) == A /\ UNCHANGED <<histVars, fwdVars, col, life>>

\* the handler holds the slice of GetPrefixes and the forwarder does not have
\* the answer of GetMapping yet: what an admin does now decides that answer
InWindow ==
    \/ route.pc \in {"range", "match"}
    \/ route.pc = "proxy" /\ fwd.pc \in {"idle", "mapping"}

\* the admin calls run inside that window; outside of it the request reads
\* nothing of the registry
Admin(A) == InWindow /\ A

AdminIdle == \A i \in Inst : adm[i].pc = "idle"

\* the handler leaves the window when the admin calls have returned
Leave(A) == AdminIdle /\ A /\ UNCHANGED <<histVars, col, life>>

NextFwd ==
    \/ \E q \in Requests, pa \in FwdPaths : Step(Request(q, pa))
    \/ RouteStep(GetPrefixes(1))
    \/ RouteStep(GetPrefixes_Range(1))
    \/ RouteStep(GetPrefixes_Return(1))
    \/ RouteStep(Route_Match)
    \/ Step(ProxyRequest)
    \/ Run(Get_HGet(1))
    \/ Run(Get_Fill(1))
    \/ Leave(Proxy_Mapped)
    \/ Step(Proxy_Guard)
    \/ Step(Proxy_Dial)
    \/ Step(Proxy_Head)
    \/ Step(Proxy_WriteHead)
    \/ Step(Copy_Read)
    \/ Step(Copy_Write)
    \/ Step(Proxy_Finish)
    \/ Step(Handler_Error)
    \/ Step(Handler_Return)
    \/ Leave(Handler_NotFound)
    \/ Step(Stats_After)
    \/ Step(Server_Finish)
    \/ Step(Served)
    \/ Admin(Start(DeleteMapping(1, <<"/", "a">>), MaxFwdCalls))
    \/ Admin(Start(AddMapping(2, <<"/", "a">>, "t2"), MaxFwdCalls))
    \/ \E i \in Inst : Admin(Run(Mutate_HExists(i)))
    \/ \E i \in Inst : Admin(Run(Mutate_HWrite(i)))
    \/ \E i \in Inst : Admin(Run(Mutate_Incr(i)))
    \/ \E i \in Inst : Admin(Run(Mutate_Cache(i)))
    \/ \E i \in Inst : Admin(Run(Mutate_Version(i)))
    \/ \E i \in Inst : Admin(Run(Mutate_Publish(i)))
    \/ \E i \in Inst : Admin(Run(Admin_Return(i)))

SpecFwd == InitFwd /\ [][NextFwd]_vars

----
\* Instance 1 from NewMappingManager to Close, next to a running peer

\* instance 1 is not built yet; the hash is empty (with or without a version
\* key left by earlier mutations) or was provisioned without a version key;
\* the peer has loaded it
InitLife ==
    /\ \E hv \in {<<EmptyMap, 0>>, <<EmptyMap, 1>>, <<SeedMap, 0>>} :
        /\ kvHash = hv[1]
        /\ kvVersion = hv[2]
        /\ cache = [i \in Inst |-> IF i = 1 THEN EmptyMap ELSE hv[1]]
    /\ version = [i \in Inst |-> 0]
    /\ chan = [i \in Inst |-> 0]
    /\ mu = [i \in Inst |-> Unlocked]
    /\ adm = [i \in Inst |-> IdleAdm]
    /\ rel = [i \in Inst |-> [k \in Workers |-> IdleRel]]
    /\ rd = [i \in Inst |-> IdleRd]
    /\ kvUp = TRUE
    /\ HistInit
    /\ RouteIdle
    /\ FwdIdle
    /\ col = IdleCol
    /\ life = [Running EXCEPT !.pc = "new", !.initialized = FALSE, !.pubsub = "none"]

\* NewMappingManager: Ping, the manager with an empty cache, then the first
\* reloadMappings (run here in the place of the poller that is not started
\* yet); when it has returned: its error fails the construction, otherwise
\* initialized.Store(true), Subscribe, and the two workers are started
NewMappingManager ==
    /\ \/ /\ life.pc = "new"
          /\ Tick(1)
          /\ life' = [life EXCEPT !.pc = "loading"]
       \/ /\ life.pc = "loading"
          /\ Reload_Return(1, "poller")
          /\ life' = IF rel[1]["poller"].res = "error" THEN [life EXCEPT !.pc = "failed"]
                     ELSE [life EXCEPT !.pc = "running", !.initialized = TRUE, !.pubsub = "open"]
    /\ UNCHANGED <<histVars, routeVars, fwdVars, col>>

\* case <-m.stopChan of a worker's select: return (deferred wg.Done)
Worker_Stop(k) ==
    /\ k \notin life.exited
    /\ life.stop
    /\ rel[1][k].pc = "idle"
    /\ life' = [life EXCEPT !.exited = @ \cup {k}]
    /\ UNCHANGED <<regVars, histVars, routeVars, fwdVars, col>>

\* a Close that does not wait for the workers
Close_NoWait ==
    /\ \/ life.pc = "running" /\ life' = [life EXCEPT !.pc = "wait", !.stop = TRUE]
       \/ life.pc = "wait" /\ life' = [life EXCEPT !.pc = "pubsub"]
       \/ life.pc = "pubsub" /\ life' = [life EXCEPT !.pc = "client", !.pubsub = "closed"]
       \/ life.pc = "client" /\ life' = [life EXCEPT !.pc = "closed", !.client = "closed"]
    /\ UNCHANGED <<regVars, histVars, routeVars, fwdVars, col>>

\* Close, step by step: close(m.stopChan); m.wg.Wait(); m.pubsub.Close();
\* m.client.Close() and return
Close ==
    /\ \/ life.pc = "running" /\ life' = [life EXCEPT !.pc = "wait", !.stop = TRUE]
       \/ life.pc = "wait" /\ life.exited = Workers /\ life' = [life EXCEPT !.pc = "pubsub"]
       \/ life.pc = "pubsub" /\ life' = [life EXCEPT !.pc = "client", !.pubsub = "closed"]
       \/ life.pc = "client" /\ life' = [life EXCEPT !.pc = "closed", !.client = "closed"]
    /\ UNCHANGED <<regVars, histVars, routeVars, fwdVars, col>>

\* what the goroutines of instance 1 do next, once called or started
Worker_Steps(k) ==
    \/ Run(Reload_Get(1, k))
    \/ Run(Reload_Compare(1, k))
    \/ Run(Reload_HGetAll(1, k))
    \/ Run(Reload_Swap(1, k))
    \/ Run(Reload_Store(1, k))
    \/ Run(Reload_Set(1, k))
    \/ life.pc # "loading" /\ Run(Reload_Return(1, k))
    \/ Worker_Stop(k)

NextLife ==
    \/ NewMappingManager
    \/ life.pc \in {"running", "wait"} /\ "poller" \notin life.exited /\ Start(Tick(1), MaxLifeCalls)
    \/ life.pc \in {"running", "wait"} /\ "listener" \notin life.exited /\ Start(Receive(1), MaxLifeCalls)
    \/ \E k \in Workers : Worker_Steps(k)
    \/ Close
    \/ Start(AddMapping(2, <<"/", "a">>, "t1"), MaxLifeCalls)
    \/ Run(Mutate_HExists(2))
    \/ Run(Mutate_HWrite(2))
    \/ Run(Mutate_Incr(2))
    \/ Run(Mutate_Cache(2))
    \/ Run(Mutate_Version(2))
    \/ Run(Mutate_Publish(2))
    \/ Run(Admin_Return(2))
    \/ \E pa \in Prefixes : life.pc = "running" /\ RouteStep(NoRoute(pa))
    \/ RouteStep(GetPrefixes(1))
    \/ RouteStep(GetPrefixes_Range(1))
    \/ RouteStep(GetPrefixes_Return(1))
    \/ RouteStep(Route_Match)
    \/ RouteStep(Route_Respond)

SpecLife == InitLife /\ [][NextLife]_vars

\* every goroutine that can take a step takes one in the end: the workers,
\* the caller of Close, the request handler inside GetPrefixes, and the
\* peer's admin request
FairLife ==
    /\ SpecLife
    /\ \A k \in Workers : WF_vars(Worker_Steps(k))
    /\ WF_vars(Close)
    /\ WF_vars(RouteStep(GetPrefixes_Range(1)) \/ RouteStep(GetPrefixes_Return(1)))
    /\ WF_vars(Run(Mutate_HExists(2)) \/ Run(Mutate_HWrite(2)) \/ Run(Mutate_Incr(2))
               \/ Run(Mutate_Cache(2)) \/ Run(Mutate_Version(2)) \/ Run(Mutate_Publish(2))
               \/ Run(Admin_Return(2)))

----
\* Properties

Mutating == {"add", "update", "delete"}

\* C1: once the mutations made through an instance have returned and Redis is
\* reachable, one poller tick that begins after them leaves a peer's cache
\* equal to the Redis hash (also when the last mapping was deleted, and with
\* every Pub/Sub message lost).
C1_PollerConverges ==
    \A i \in Inst :
        LET r == rel[i]["poller"]
        IN (r.pc = "done" /\ r.fresh /\ r.res # "error") => cache[i] = kvHash

\* C2: on one instance, GetMapping(p) right after a successful AddMapping(p, t)
\* or UpdateMapping(p, t) returns t, and right after a successful
\* DeleteMapping(p) it finds no mapping (or fails because Redis is unreachable).
C2_ReadYourWrite ==
    \A i \in Inst :
        (/\ rd[i].pc = "done" /\ rd[i].op = "get"
         /\ prev.inst = i /\ prev.p = rd[i].p /\ prev.res = "ok")
        => IF prev.op = "delete" THEN rd[i].res \in {"notfound", "error"}
           ELSE rd[i].res = prev.t

\* GetMapping(p) on instance 1 has found nothing right after DeleteMapping(p) succeeded there
C2_Witness ==
    /\ rd[1].pc = "done" /\ rd[1].op = "get" /\ rd[1].res = "notfound"
    /\ prev.inst = 1 /\ prev.op = "delete" /\ prev.res = "ok" /\ prev.p = rd[1].p

\* C3: of two AddMapping calls for one prefix that both began while the Redis
\* hash did not hold it, exactly one returns success.
C3_OneAddWins ==
    \A i, j \in Inst :
        (/\ i # j
         /\ adm[i].pc = "done" /\ adm[i].op = "add" /\ ~adm[i].had
         /\ adm[j].pc = "done" /\ adm[j].op = "add" /\ ~adm[j].had
         /\ adm[i].p = adm[j].p)
        => (adm[i].res = "ok") # (adm[j].res = "ok")

\* C4: AddMapping of a prefix the Redis hash holds fails, UpdateMapping and
\* DeleteMapping of a prefix it does not hold fail, and a call rejected by this
\* check leaves the hash, both versions, the caches and the subscriptions as
\* they were when it began.
C4_ExistenceCheck ==
    \A i \in Inst :
        (adm[i].pc = "done" /\ adm[i].op \in Mutating)
        => /\ (adm[i].op = "add" /\ adm[i].p \in DOMAIN before.kvHash) => adm[i].res # "ok"
           /\ (adm[i].op # "add" /\ adm[i].p \notin DOMAIN before.kvHash) => adm[i].res # "ok"
           /\ adm[i].res \in {"exists", "notfound"} => Snapshot = before

\* a second DeleteMapping of the prefix the first one removed has been rejected
C4_Witness ==
    /\ adm[1].pc = "done" /\ adm[1].op = "delete" /\ adm[1].res = "notfound"
    /\ calls = 2 /\ before.kvVersion = 2 /\ before.kvHash = EmptyMap

\* C5: the version in Redis never decreases, and when a mutation returns
\* success its instance's version is greater than every version that was
\* visible, locally or in Redis, when the mutation began.
C5_VersionsGrow ==
    [][/\ kvVersion' >= kvVersion
       /\ \A i \in Inst :
            (/\ adm[i].pc = "done" /\ adm'[i].pc = "idle"
             /\ adm[i].op \in Mutating /\ adm[i].res = "ok")
            => version[i] > adm[i].base]_vars

\* C6: while no call is in progress, no instance's version exceeds the version
\* in Redis, whether or not the increments of the mutations before succeeded.
C6_LocalNotAhead ==
    Active = 0 => \A i \in Inst : version[i] <= kvVersion

\* C7: a mutation changes the cache only after its hash write has succeeded:
\* up to the hash write, and when the call returns an error, the instance's
\* cache and version are what they were when the call began, and a GetMapping
\* that follows the failed call still returns the cached entry.
C7_FailedMutation ==
    \A i \in Inst :
        /\ (adm[i].op \in Mutating /\ (adm[i].pc \in {"hexists", "hwrite"} \/ adm[i].res = "error"))
           => (cache[i] = before.cache[i] /\ version[i] = before.version[i])
        /\ (/\ rd[i].pc = "done" /\ rd[i].op = "get"
            /\ prev.inst = i /\ prev.p = rd[i].p /\ prev.res = "error"
            /\ rd[i].p \in DOMAIN before.cache[i])
           => rd[i].res = before.cache[i][rd[i].p]

\* UpdateMapping on instance 1 failed at the hash write of a cached prefix,
\* and the GetMapping that followed returned the cached target
C7_Witness ==
    /\ rd[1].pc = "done" /\ rd[1].op = "get" /\ rd[1].res = "t1"
    /\ prev.inst = 1 /\ prev.op = "update" /\ prev.t = "t2" /\ prev.res = "error"
    /\ prev.p = rd[1].p /\ kvHash = SeedMap

\* C8: GetAllMappings returns the cache exactly as it was at one instant, the
\* one at which it took the read lock: no reload or ForceReload swaps the cache
\* while the copy is in progress.
C8_AtomicSwap ==
    \A i \in Inst :
        /\ (rd[i].op = "all" /\ rd[i].pc = "copy") => cache[i] = rd[i].from
        /\ (rd[i].op = "all" /\ rd[i].pc = "done") => rd[i].acc = rd[i].from

\* GetAllMappings on instance 1 holds its complete result of before the swap
\* that a concurrent reload has made since
C8_Witness ==
    /\ rd[1].pc = "done" /\ rd[1].op = "all" /\ rd[1].acc # EmptyMap
    /\ cache[1] # rd[1].from
    /\ \E k \in Workers : rel[1][k].pc \in {"store", "done"}

\* C9: the prefix the router selects is the longest registered prefix that
\* matches the request path.
C9_LongestPrefixWins ==
    route.pc \in {"proxy", "notfound"}
    => \A q \in DOMAIN cache[1] :
           matchesPrefix(path, q) => (route.ok /\ Len(route.prefix) >= Len(q))

\* C10: GetPrefixes returns every cached prefix exactly once, and no prefix is
\* followed by a longer one.
C10_PrefixesSorted ==
    route.pc = "match"
    => /\ Len(prefixes) = Cardinality(DOMAIN cache[1])
       /\ \A q \in DOMAIN cache[1] : \E a \in 1..Len(prefixes) : prefixes[a] = q
       /\ \A a, b \in 1..Len(prefixes) : a < b => Len(prefixes[a]) >= Len(prefixes[b])

\* what C11 takes a match to be
SegmentMatch(pa, q) ==
    \/ q = <<"/">>
    \/ pa = q
    \/ (HasSuffix(q, <<"/">>) /\ HasPrefix(pa, q))
    \/ (HasPrefix(pa, q) /\ Len(pa) > Len(q) /\ pa[Len(q) + 1] = "/")

\* C11 as stated: for every path and every prefix, the matcher accepts exactly
\* when the prefix is "/", or equals the path, or ends with "/" and starts the
\* path, or starts the path up to a "/".
C11_MatchesAsStated ==
    (route.pc \in {"proxy", "notfound"} /\ Len(prefixes) = 1)
    => (route.ok <=> SegmentMatch(path, prefixes[1]))

\* C11, amended: the same for every non-empty prefix, and the empty prefix
\* matches no path; a path that continues the last segment of the prefix
\* does not match.
C11_SegmentBoundary ==
    (route.pc \in {"proxy", "notfound"} /\ Len(prefixes) = 1)
    => (route.ok <=> (prefixes[1] # <<>> /\ SegmentMatch(path, prefixes[1])))

\* /ab has been refused for the prefix /a
C11_Witness ==
    /\ route.pc = "notfound"
    /\ path = <<"/", "a", "b">>
    /\ prefixes = << <<"/", "a">> >>

\* C12: the prefix the matcher returns is a registered prefix, prefix and
\* remainder together give the path back (with the slash between them written
\* once when the prefix ends with "/"), and the remainder is empty when the
\* path is the prefix.
C12_PrefixPlusRemainder ==
    route.pc = "proxy"
    => /\ route.prefix \in DOMAIN cache[1]
       /\ \/ route.prefix \o route.rest = path
          \/ /\ HasSuffix(route.prefix, <<"/">>)
             /\ route.rest # <<>>
             /\ route.rest[1] = "/"
             /\ route.prefix \o Tail(route.rest) = path
       /\ (path = route.prefix => route.rest = <<>>)

\* /a/b has been matched by the prefix /a/ with the remainder /b
C12_Witness ==
    /\ route.pc = "proxy"
    /\ path = <<"/", "a", "/", "b">>
    /\ route.prefix = <<"/", "a", "/">>
    /\ route.rest = <<"/", "b">>

\* the headers of h that are not hop-by-hop
EndToEnd(h) == [n \in {m \in DOMAIN h : ToLower(m) \notin hopByHopHeaders} |-> h[n]]

\* what the client has received or will receive, in order
Stream == sink.wire \o sink.buf

\* C13: when the upstream produced a response and the copy ended without
\* error, the client has received the upstream's status, the upstream's
\* headers other than the hop-by-hop ones, and the upstream's body bytes in
\* order, nothing added or dropped.
C13_VerbatimResponse ==
    (route.pc = "served" /\ fwd.err = "none" /\ up.resp # NoResp)
    => sink.wire = <<HeadItem(up.resp.status, EndToEnd(up.resp.hdr))>>
                   \o [i \in 1..Len(up.resp.body) |-> BodyItem(up.resp.body[i])]

\* C14: in both directions a header reaches the destination exactly when its
\* lower-cased name is not hop-by-hop, and with its whole value list.
C14_HopByHopFiltered ==
    /\ fwd.pc \in {"do", "head", "writehead"}
       => /\ DOMAIN fwd.out = {n \in DOMAIN req.hdr : ToLower(n) \notin hopByHopHeaders}
          /\ \A n \in DOMAIN fwd.out : fwd.out[n] = req.hdr[n]
    /\ fwd.pc \in {"read", "write", "finish"}
       => /\ DOMAIN sink.hdr = {n \in DOMAIN fwd.resp.hdr : ToLower(n) \notin hopByHopHeaders}
          /\ \A n \in DOMAIN sink.hdr : sink.hdr[n] = fwd.resp.hdr[n]

\* the request headers X-Id: 1, 2 and Connection have been copied: X-Id with
\* both values, Connection not; and Keep-Alive of the response was left out
C14_Witness ==
    /\ fwd.pc = "read"
    /\ H.Connection \in DOMAIN req.hdr
    /\ H.Connection \notin DOMAIN fwd.out
    /\ fwd.out[H.XId] = <<"1", "2">>
    /\ H.KeepAlive \in DOMAIN fwd.resp.hdr
    /\ H.KeepAlive \notin DOMAIN sink.hdr

\* C15: when GetMapping reports that the prefix has no mapping, ProxyRequest
\* returns that error, no request has gone to an upstream and the observer
\* was told nothing; a request start is recorded only with the prefix of the
\* call, and only when its mapping was found.
C15_NotFoundDispatchesNothing ==
    /\ fwd.err = "notfound"
       => /\ fwd.pc \in {"return", "returned"}
          /\ up.got = <<>>
          /\ obs.ev = <<>>
    /\ \A i \in DOMAIN obs.ev :
          obs.ev[i][1] = "request"
          => /\ obs.ev[i][2] = route.prefix
             /\ fwd.target \in Targets

\* a forwarder with a statsCollector has returned "mapping not found"
C15_Witness ==
    /\ obs.on
    /\ fwd.pc = "return"
    /\ fwd.err = "notfound"

C17_NothingHeldBack ==
    (/\ fwd.pc = "read"
     /\ H.ContentType \in DOMAIN fwd.resp.hdr
     /\ fwd.resp.hdr[H.ContentType] = <<"text/event-stream">>)
    => /\ sink.buf = <<>>
       /\ sink.wire # <<>>

C19_NothingAfterError ==
    \A i \in DOMAIN Stream :
        Stream[i].b = "E" => \A j \in 1..(i - 1) : Stream[j].k = "head"

\* C20: when the upstream cannot be dialled or its response head cannot be
\* read, the client receives a gateway error status (502 or 504), and the
\* request went to the upstream at most once.
C20_GatewayStatus ==
    (route.pc = "served" /\ fwd.err \in {"dial", "head"})
    => /\ sink.wire # <<>>
       /\ sink.wire[1].status \in {502, 504}
       /\ Len(up.got) <= 1

----
\* The root prefix

\* C30 as stated: with the prefix "/" registered, every non-empty path matches
\* it and the remainder handed to the forwarder is the path itself.
C30_RootRemainderIsPath ==
    (route.pc \in {"proxy", "notfound"} /\ prefixes = << <<"/">> >> /\ path # <<>>)
    => (route.ok /\ route.prefix = <<"/">> /\ route.rest = path)

\* C30, amended: every non-empty path matches "/"; for a path that starts with
\* "/" the remainder is the path itself when something other than "/" follows
\* the first slash, it is empty for the path "/", and it is the path without
\* its first slash when the path starts with "//".
C30_RootRemainder ==
    (route.pc \in {"proxy", "notfound"} /\ prefixes = << <<"/">> >> /\ path # <<>>)
    => /\ route.ok
       /\ route.prefix = <<"/">>
       /\ path[1] = "/" =>
            route.rest = IF Len(path) = 1 THEN <<>>
                         ELSE IF path[2] = "/" THEN Tail(path)
                         ELSE path

\* the path / has been matched by the prefix / with an empty remainder
C30_Witness ==
    /\ route.pc = "proxy"
    /\ prefixes = << <<"/">> >>
    /\ path = <<"/">>
    /\ route.rest = <<>>

----
\* ForceReload

----
\* Validation of Add and Update

\* C26: an Add or Update is accepted only for a prefix that is non-empty,
\* starts with "/" and holds no space, and a target that is non-empty, parses
\* as a URL, has the scheme http or https and a non-empty host; any other
\* input is answered with 400 before any KV operation, the KV hash, the KV
\* version, the caches and the local versions staying as they were.
C26_ValidatedBeforeRedis ==
    \A i \in Inst :
        adm[i].op \in {"add", "update"} =>
            LET p == adm[i].p
                u == TargetURL[adm[i].t]
                url == Parse(u)
                wellFormed ==
                    /\ p # <<>> /\ p[1] = "/" /\ \A k \in DOMAIN p : p[k] # " "
                    /\ u # <<>> /\ ~url.err
                    /\ url.Scheme \in {<<"h", "t", "t", "p">>, <<"h", "t", "t", "p", "s">>}
                    /\ url.Host # <<>>
            IN /\ adm[i].res = "ok" => wellFormed
               /\ ~wellFormed =>
                    /\ adm[i].pc = "done"
                    /\ adm[i].res = "invalid"
                    /\ handleStatus(adm[i].op, adm[i].res) = 400
                    /\ Snapshot = before

\* an Update that names an ftp target has been refused while Redis holds a
\* mapping, and an Add has been accepted before
C26_Witness ==
    /\ adm[1].pc = "done" /\ adm[1].op = "update" /\ adm[1].t = "ftp"
    /\ adm[1].res = "invalid"
    /\ kvHash # EmptyMap

----
\* The statistics collector as the requests reach it, and the upstream URL

\* what the collector was told about the request, by the forwarder and by
\* the middleware
Told(kind) ==
    LET evs == obs.ev \o obs.mwev
    IN {i \in DOMAIN evs : evs[i][1] = kind}

\* C21: a request whose dispatch to the upstream failed (the upstream could
\* not be dialled, or the dial or the wait for the response head timed out)
\* has raised the collector's error count by exactly one, and no byte of a
\* response body was taken in or passed on.
C21_OneErrorPerFailedDispatch ==
    (route.pc = "served" /\ fwd.err \in {"dial", "head"} /\ (obs.on \/ obs.mw))
    => /\ Cardinality(Told("error")) = 1
       /\ fwd.resp = NoResp
       /\ fwd.pos = 0
       /\ \A i \in DOMAIN sink.wire : sink.wire[i].k = "body" => sink.wire[i].b = "E"

\* the dial failed under the stats middleware, which recorded the 500
C21_Witness ==
    /\ route.pc = "served"
    /\ fwd.err = "dial"
    /\ obs.mw
    /\ obs.mwev = << <<"request", <<"a">> >>, <<"metrics", <<"a">> >>, <<"error", <<"a">> >> >>

\* C22: a request whose path matches no registered prefix is answered with
\* 404 and the JSON hint, no request goes to an upstream, and the collector
\* is not told of a request.
C22_UnmatchedPathUnobserved ==
    (route.pc = "served" /\ ~route.ok)
    => /\ sink.wire = <<HeadItem(404, H.ContentType :> <<"application/json">>), BodyItem("N")>>
       /\ up.got = <<>>
       /\ Told("request") = {}

\* C25: the URL sent upstream is the target, then the residual path, then
\* "?" and the raw query exactly when the request has one, and nothing else
\* is done to it.
C25_UpstreamURL ==
    up.got # <<>>
    => up.url = TargetURL[fwd.target] \o route.rest
                \o (IF req.query # <<>> THEN <<"?">> \o req.query ELSE <<>>)

----
\* The collector never holds its callers up

\* C24: a RecordRequest or RecordError call takes two steps of its caller,
\* the second of which can always be taken, however full the channel is and
\* whatever the batch worker and the readers of the statistics do; an event
\* that finds the channel full is discarded and raises the dropped-events
\* counter by exactly one, and any other event is queued without a drop.
C24_RecordNeverBlocks ==
    /\ [](\A c \in DOMAIN col.caller :
            /\ col.caller[c].steps <= 2
            /\ col.caller[c].pc = "send" => ENABLED Record_Send(c))
    /\ [][\A c \in DOMAIN col.caller :
            (col.caller[c].pc = "send" /\ col'.caller[c].pc = "idle")
            => IF Len(col.eventChan) = QueueCap
               THEN /\ col'.droppedEvents = col.droppedEvents + 1
                    /\ col'.eventChan = col.eventChan
               ELSE /\ col'.droppedEvents = col.droppedEvents
                    /\ Len(col'.eventChan) = Len(col.eventChan) + 1]_vars

\* an event has been dropped on a full channel while the batch worker waits
\* for the lock a reader holds
C24_Witness ==
    /\ col.droppedEvents = 1
    /\ Len(col.eventChan) = QueueCap
    /\ col.pc = "process"
    /\ col.readers = 1
    /\ \A c \in DOMAIN col.caller : col.caller[c].pc = "idle"

----
\* Construction over an empty hash, and Close

C29_CloseWaitsForWorkers ==
    /\ [](life.pc \in {"wait", "pubsub", "client", "closed"} => life.stop)
    /\ []((life.pc \in {"pubsub", "client", "closed"}
           \/ life.pubsub = "closed" \/ life.client = "closed")
          => /\ life.exited = Workers
             /\ \A k \in Workers : rel[1][k].pc = "idle")
    /\ [][life.pc \in {"pubsub", "client", "closed"} => rel'[1] = rel[1]]_vars
    /\ (life.pc = "wait" ~> life.pc = "closed")

\* Close waits: the listener has returned, the poller is inside a reload
C29_Witness ==
    /\ life.pc = "wait"
    /\ life.exited = {"listener"}
    /\ rel[1]["poller"].pc = "hgetall"
    /\ life.pubsub = "open"

----
\* The admin API behind its token

\* C31: an admin request reaches a registry operation only with a credential
\* equal to ADMIN_TOKEN (alone or after "Bearer "): with ADMIN_TOKEN unset the
\* request is answered 503, with a missing or different credential 401, and
\* in both cases the KV hash, the KV version, the caches and the local
\* versions are what they were before the request.
C31_AdminNeedsToken ==
    LET a == adm[1]
        bare == SelectSeq(a.hdr, LAMBDA c : c # " ")
        equal == a.tok # <<>> /\ bare \in {a.tok, <<"B", "e", "a", "r", "e", "r">> \o a.tok}
    IN a.op \in Mutating =>
        /\ a.tok = <<>> => (a.pc = "done" /\ a.code = 503)
        /\ (a.tok # <<>> /\ ~equal) => (a.pc = "done" /\ a.code = 401)
        /\ a.code \in {401, 503} => (a.res = "aborted" /\ Snapshot = before)
        /\ a.res # "aborted" => equal

\* a Delete with a wrong token has been answered 401 and the mapping that an
\* Add with the token after "Bearer " created is still there
C31_Witness ==
    /\ adm[1].pc = "done" /\ adm[1].op = "delete" /\ adm[1].code = 401
    /\ adm[1].hdr = <<"B", "e", "a", "r", "e", "r", " ", "x">>
    /\ adm[1].p \in DOMAIN kvHash /\ kvVersion = 1 /\ calls = 2

----
\* The order of a mutation's effects, reloads, reads

\* C32: a successful Add, Update or Delete writes the KV hash, then increments
\* the KV version, then updates the local cache, then publishes: from the
\* cache update on the hash holds the mutation and the KV version is one more
\* than before the call, and nothing is published before the cache is updated.
C32_EffectsInOrder ==
    \A i \in Inst :
        LET a == adm[i]
            written == IF a.op = "delete" THEN a.p \notin DOMAIN kvHash
                       ELSE a.p \in DOMAIN kvHash /\ kvHash[a.p] = a.t
            cached == IF a.op = "delete" THEN a.p \notin DOMAIN cache[i]
                      ELSE a.p \in DOMAIN cache[i] /\ cache[i][a.p] = a.t
        IN a.op \in Mutating =>
            /\ a.pc = "incr" =>
                  written /\ kvVersion = before.kvVersion /\ cache = before.cache
            /\ a.pc = "cache" =>
                  written /\ kvVersion = before.kvVersion + 1 /\ cache = before.cache
            /\ (a.pc \in {"version", "publish"} \/ (a.pc = "done" /\ a.res = "ok")) =>
                  written /\ kvVersion = before.kvVersion + 1 /\ cached
            /\ a.pc # "done" => chan = before.chan

\* C33: when a reload of instance 1 that was not short-circuited returns
\* success, the cache is the hash that reload read and the local version the
\* remote version it read; with no remote version the local version has been
\* incremented by one and that value written to the KV store.
C33_ReloadPostcondition ==
    [][\A k \in Workers :
        LET r == rel[1][k]
            after == rel'[1][k]
        IN /\ (r.pc # "done" /\ after.pc = "done" /\ after.res \in {"reloaded", "empty"}) =>
                /\ cache'[1] = after.m
                /\ IF after.rv > 0 THEN version'[1] = after.rv
                   ELSE r.pc = "set" /\ kvVersion' = version'[1]
           /\ (r.pc = "store" /\ after.pc = "set") => version'[1] = version[1] + 1]_vars

C35_FailedReloadKeepsState ==
    \A k \in Workers :
        (rel[1][k].pc = "done" /\ rel[1][k].res = "error") =>
            /\ cache[1] = before.cache[1]
            /\ version[1] = before.version[1]
            /\ kvHash = before.kvHash /\ kvVersion = before.kvVersion
            /\ mu[1] = Unlocked
            /\ ENABLED RunSeq(Reload_Return(1, k))

\* the poller's reload has failed at the hash read, after it had found the
\* version changed by the peer's Update; the cache still holds the old target
C35_Witness ==
    /\ rel[1]["poller"].pc = "done" /\ rel[1]["poller"].res = "error"
    /\ rel[1]["poller"].rv = 2 /\ version[1] = 1
    /\ cache[1] = SeedMap /\ kvHash # SeedMap /\ ~kvUp

\* C36: GetMapping of a cached prefix returns the cached target without a
\* Redis command (also while Redis is unreachable or holds another target);
\* on a miss it makes one HGet: a prefix Redis holds is stored in the cache and
\* returned, one it does not hold gives "not found" and leaves the cache as it was.
C36_GetMapping ==
    \A i \in Inst :
        LET r == rd[i]
            hit == r.p \in DOMAIN before.cache[i]
        IN (r.op = "get" /\ r.pc # "idle") =>
            /\ hit => (r.pc = "done" /\ r.res = before.cache[i][r.p] /\ Snapshot = before)
            /\ (~hit /\ r.pc \in {"hget", "fill"}) => Snapshot = before
            /\ (~hit /\ r.pc = "done") =>
                  IF r.res = "error" THEN Snapshot = before
                  ELSE IF r.p \in DOMAIN kvHash
                  THEN /\ r.res = kvHash[r.p]
                       /\ cache[i] = Put(before.cache[i], r.p, r.res)
                       /\ [Snapshot EXCEPT !.cache = before.cache] = before
                  ELSE r.res = "notfound" /\ Snapshot = before

\* a miss on instance 1 has fetched the mapping the peer added and cached it
C36_Witness ==
    /\ rd[1].pc = "done" /\ rd[1].op = "get" /\ rd[1].res = "t2"
    /\ before.cache[1] = EmptyMap
    /\ cache[1] = Put(EmptyMap, rd[1].p, "t2")
    /\ cache[2] = cache[1]

\* C37: on one instance, once its mutations and lookups have returned and a
\* poller tick that began after them has run with Redis reachable, the cache
\* holds no prefix that the Redis hash does not hold and no target other than
\* the hash's.
C37_NoStaleEntry ==
    LET r == rel[1]["poller"]
    IN (r.pc = "done" /\ r.fresh /\ r.res # "error") =>
        \A p \in DOMAIN cache[1] : p \in DOMAIN kvHash /\ cache[1][p] = kvHash[p]

\* C38: the version an instance reports never decreases, whatever the
\* interleaving of its mutations and its reloads.
C38_VersionNeverDecreases ==
    [][version'[1] >= version[1]]_vars

\* C39: UpdateMapping never creates a mapping: when an Update and a Delete of
\* one prefix have both returned, the Delete with success, and no Add was
\* issued, the prefix is absent from the Redis hash and from the cache of the
\* instance that deleted it.
C39_UpdateNeverCreates ==
    \A i, j \in Inst :
        (/\ calls = 2
         /\ adm[i].pc = "done" /\ adm[i].op = "update"
         /\ adm[j].pc = "done" /\ adm[j].op = "delete" /\ adm[j].res = "ok"
         /\ adm[i].p = adm[j].p)
        => (adm[j].p \notin DOMAIN kvHash /\ adm[j].p \notin DOMAIN cache[j])

----
\* The collector's accounting at shutdown

\* C40: when Close has returned, every RecordRequest and RecordError call
\* made before it has been counted exactly once: the counts the batch worker
\* has applied to the endpoints plus the dropped-events counter equal the
\* number of calls.
C40_EveryEventAccounted ==
    (col.close = "closed" /\ \A c \in DOMAIN col.caller : col.caller[c].pc = "idle") =>
        col.endpoints["a"].Count + col.droppedEvents = col.calls

====
